---------------------------- MODULE Spec2Model ----------------------------
(* Model of the header-driven transaction parser of mindat-assistant      *)
(* (src/services/nlp_parser.py) as it is driven by the text handlers of    *)
(* src/handlers/message_handler.py.                                        *)
(*                                                                         *)
(* Python strings are TLA+ strings; a character is a string of length 1.   *)
(* Python floats are modelled as exact rationals in lowest terms, which    *)
(* agrees with IEEE-754 on every value the bounded inputs below produce.   *)
EXTENDS Integers, Sequences, FiniteSets, TLC

\* ------------------------------------------------------------------------
\* Bounds of the model
\* ------------------------------------------------------------------------

\* Largest number of phrases joined into one chat message.
MaxWords == 2

\* ------------------------------------------------------------------------
\* Python str primitives
\* ------------------------------------------------------------------------

Min(S) == CHOOSE x \in S : \A y \in S : x <= y

\* s[i-1:j] with Python's clipping of out-of-range slice bounds
Slice(s, i, j) ==
  LET a == IF i < 1 THEN 1 ELSE i
      b == IF j > Len(s) THEN Len(s) ELSE j
  IN  IF a > b THEN "" ELSE SubSeq(s, a, b)

At(s, i) == Slice(s, i, i)

DropFirst(s, n) == Slice(s, n + 1, Len(s))

Digits == {"0", "1", "2", "3", "4", "5", "6", "7", "8", "9"}

\* The characters \s matches and str.strip() removes, within the alphabet used.
Whitespace == {" "}

DigitVal ==
  [c \in Digits |->
     CASE c = "0" -> 0 [] c = "1" -> 1 [] c = "2" -> 2 [] c = "3" -> 3
       [] c = "4" -> 4 [] c = "5" -> 5 [] c = "6" -> 6 [] c = "7" -> 7
       [] c = "8" -> 8 [] c = "9" -> 9]

DigitChar == <<"1", "2", "3", "4", "5", "6", "7", "8", "9">>

UpperToLower ==
  [A |-> "a", B |-> "b", C |-> "c", D |-> "d", E |-> "e", F |-> "f",
   G |-> "g", H |-> "h", I |-> "i", J |-> "j", K |-> "k", L |-> "l",
   M |-> "m", N |-> "n", O |-> "o", P |-> "p", Q |-> "q", R |-> "r",
   S |-> "s", T |-> "t", U |-> "u", V |-> "v", W |-> "w", X |-> "x",
   Y |-> "y", Z |-> "z"]

LowerChar(c) == IF c \in DOMAIN UpperToLower THEN UpperToLower[c] ELSE c

RECURSIVE lower(_)
\* str.lower()
lower(s) == IF s = "" THEN "" ELSE LowerChar(At(s, 1)) \o lower(DropFirst(s, 1))

RECURSIVE lstrip(_)
lstrip(s) ==
  IF s # "" /\ At(s, 1) \in Whitespace THEN lstrip(DropFirst(s, 1)) ELSE s

RECURSIVE rstrip(_)
rstrip(s) ==
  IF s # "" /\ At(s, Len(s)) \in Whitespace
  THEN rstrip(Slice(s, 1, Len(s) - 1)) ELSE s

\* str.strip()
strip(s) == rstrip(lstrip(s))

\* str.find(sub) + 1: the 1-based index of the first occurrence, 0 when none.
find(s, sub) ==
  LET I == {i \in 1..(Len(s) - Len(sub) + 1) :
              Slice(s, i, i + Len(sub) - 1) = sub}
  IN  IF I = {} THEN 0 ELSE Min(I)

\* The Python expression  sub in s
contains(s, sub) == find(s, sub) # 0

\* s.replace(old, '', 1) for a non-empty old
replace_first(s, old) ==
  LET i == find(s, old)
  IN  IF i = 0 THEN s
      ELSE Slice(s, 1, i - 1) \o DropFirst(s, i + Len(old) - 1)

RECURSIVE remove_char(_, _)
\* s.replace(c, '') for a single character c
remove_char(s, c) ==
  IF s = "" THEN ""
  ELSE (IF At(s, 1) = c THEN "" ELSE At(s, 1)) \o remove_char(DropFirst(s, 1), c)

RECURSIVE split(_, _)
\* s.split(sep) for a single character sep
split(s, sep) ==
  LET i == find(s, sep)
  IN  IF i = 0 THEN <<s>>
      ELSE <<Slice(s, 1, i - 1)>> \o split(DropFirst(s, i), sep)

RECURSIVE DigitsToNat(_, _)
DigitsToNat(s, acc) ==
  IF s = "" THEN acc
  ELSE DigitsToNat(DropFirst(s, 1), acc * 10 + DigitVal[At(s, 1)])

\* int(s) for the strings the parser passes, which its regular expressions
\* restrict to \s*\d+ (surrounding whitespace is ignored by int).
int(s) == DigitsToNat(strip(s), 0)

RECURSIVE NatToDigits(_)
\* str(n) for an int n >= 0
NatToDigits(n) ==
  IF n < 10 THEN (IF n = 0 THEN "0" ELSE DigitChar[n])
  ELSE NatToDigits(n \div 10) \o NatToDigits(n % 10)

\* ------------------------------------------------------------------------
\* Regular-expression primitives (re.search / re.sub, leftmost match, greedy
\* quantifiers, alternatives tried in the order written)
\* ------------------------------------------------------------------------

RECURSIVE RunEnd(_, _, _)
\* Index of the last character of the longest run of characters of class C
\* that starts at index i; i - 1 when the run is empty.
RunEnd(s, i, C) ==
  IF i <= Len(s) /\ At(s, i) \in C THEN RunEnd(s, i + 1, C) ELSE i - 1

\* Length of the first alternative of alts that matches s at index i under
\* re.IGNORECASE (the alternatives are lower-case); 0 when none matches.
AltAt(s, i, alts) ==
  LET K == {k \in 1..Len(alts) :
              lower(Slice(s, i, i + Len(alts[k]) - 1)) = alts[k]}
  IN  IF i < 1 \/ K = {} THEN 0 ELSE Len(alts[Min(K)])

RECURSIVE SpacedWordsEnd(_, _, _)
\* Matches (\s+ word) for each word of ws in turn, starting after index e.
\* Returns the index of the last matched character, 0 when the match fails.
SpacedWordsEnd(s, e, ws) ==
  IF ws = <<>> THEN e
  ELSE LET k == RunEnd(s, e + 1, Whitespace)
           l == AltAt(s, k + 1, <<Head(ws)>>)
       IN  IF k >= e + 1 /\ l > 0
           THEN SpacedWordsEnd(s, k + l, Tail(ws)) ELSE 0

\* The value of a failed re.search
None == [start |-> 0]

Match(s, i, e, g1b, g1e) ==
  [start |-> i, group0 |-> Slice(s, i, e), group1 |-> Slice(s, g1b, g1e)]

\* ------------------------------------------------------------------------
\* Python values: int, float (exact rational num/den, den > 0), str, None
\* ------------------------------------------------------------------------

RECURSIVE GCD(_, _)
GCD(a, b) == IF b = 0 THEN a ELSE GCD(b, a % b)

Abs(n) == IF n < 0 THEN -n ELSE n

IntVal(n) == [type |-> "int", num |-> n, den |-> 1]

FloatVal(n, d) ==
  LET g == IF n = 0 THEN d ELSE GCD(Abs(n), d)
  IN  [type |-> "float", num |-> n \div g, den |-> d \div g]

StrVal(s) == [type |-> "str", s |-> s]

NoneVal == [type |-> "NoneType"]

\* bool(v)
Truthy(v) ==
  CASE v.type = "NoneType" -> FALSE
    [] v.type = "str" -> v.s # ""
    [] OTHER -> v.num # 0

\* a * b with at least one float operand
FloatMul(a, b) == FloatVal(a.num * b.num, a.den * b.den)

\* a / b (true division) for b # 0
FloatDiv(a, b) == FloatVal(a.num * b.den, a.den * b.num)

\* a > 0 for a number
Positive(a) == a.num > 0

\* float(s) for a string over digits and '.': digits with at most one point
\* and at least one digit; anything else is a ValueError.
float(s) ==
  LET p == find(s, ".")
      ip == IF p = 0 THEN s ELSE Slice(s, 1, p - 1)
      fp == IF p = 0 THEN "" ELSE DropFirst(s, p)
      digitsOnly(t) == \A i \in 1..Len(t) : At(t, i) \in Digits
      Pow10[k \in 0..Len(s)] == IF k = 0 THEN 1 ELSE 10 * Pow10[k - 1]
  IN  IF digitsOnly(ip) /\ digitsOnly(fp) /\ Len(ip) + Len(fp) > 0
      THEN [ok |-> TRUE,
            v |-> FloatVal(DigitsToNat(ip \o fp, 0), Pow10[Len(fp)])]
      ELSE [ok |-> FALSE, v |-> NoneVal]

RECURSIVE FracDigits(_, _)
\* Decimal digits of r/den (0 <= r < den) for a terminating expansion.
FracDigits(r, den) ==
  IF r = 0 THEN ""
  ELSE NatToDigits((r * 10) \div den) \o FracDigits((r * 10) % den, den)

\* str(v): an int prints its digits, a float prints repr(), which for the
\* non-negative terminating decimals below 1e16 of this model is the integer
\* part, a point and the fraction digits ("0" when the value is integral).
str(v) ==
  CASE v.type = "str" -> v.s
    [] v.type = "int" -> NatToDigits(v.num)
    [] v.type = "float" ->
         NatToDigits(v.num \div v.den) \o "." \o
         (IF v.num % v.den = 0 THEN "0" ELSE FracDigits(v.num % v.den, v.den))

\* dict helpers: a dict is a function from its keys
EmptyDict == [k \in {} |-> NoneVal]

dict_get(d, k) == IF k \in DOMAIN d THEN d[k] ELSE NoneVal

dict_update(d, e) ==
  [k \in DOMAIN d \cup DOMAIN e |-> IF k \in DOMAIN e THEN e[k] ELSE d[k]]

dict_set(d, k, v) == dict_update(d, [x \in {k} |-> v])

\* ------------------------------------------------------------------------
\* NLPParser.__init__ / _get_active_entities
\* ------------------------------------------------------------------------

\* Insertion order of self.entity_map
entity_keys ==
  <<"item_name", "quantity", "unit_price", "total_price",
    "transaction_type", "profit">>

entity_map ==
  [item_name |-> <<"item", "nama", "barang", "produk", "deskripsi",
                   "keterangan">>,
   quantity |-> <<"quantity", "qty", "jumlah", "unit", "buah">>,
   unit_price |-> <<"harga satuan", "harga/unit", "harga per unit",
                    "satuan">>,
   total_price |-> <<"total", "total harga", "harga total", "amount",
                     "harga", "jumlah pengeluaran">>,
   transaction_type |-> <<"type", "tipe", "jenis", "kategori">>,
   profit |-> <<"laba", "profit", "keuntungan">>]

\* [h.lower().strip() for h in headers]
headers_lower(headers) ==
  [i \in 1..Len(headers) |-> strip(lower(headers[i]))]

\* list.index(x) for a sequence, 0 when absent
index(seq, x) ==
  LET I == {i \in 1..Len(seq) : seq[i] = x}
  IN  IF I = {} THEN 0 ELSE Min(I)

\* Index of the first synonym found among the lower-cased headers, 0 if none
first_synonym(synonyms, hl) ==
  LET K == {k \in 1..Len(synonyms) : index(hl, synonyms[k]) # 0}
  IN  IF K = {} THEN 0 ELSE Min(K)

\* _get_active_entities that compares the synonyms with the headers as they
\* are written, neither lower-cased nor trimmed
_get_active_entities_unnormalised(hdrs) ==
  LET syn == [e \in DOMAIN entity_map |-> first_synonym(entity_map[e], hdrs)]
  IN  [e \in {x \in DOMAIN entity_map : syn[x] # 0} |->
         hdrs[index(hdrs, entity_map[e][syn[e]])]]

\* _get_active_entities that takes, for each entity, the first header of the
\* row that equals any of its synonyms
_get_active_entities_header_order(hdrs) ==
  LET hl == headers_lower(hdrs)
      hit(e) == {i \in 1..Len(hdrs) :
                   \E k \in 1..Len(entity_map[e]) : hl[i] = entity_map[e][k]}
  IN  [e \in {x \in DOMAIN entity_map : hit(x) # {}} |-> hdrs[Min(hit(e))]]

\* Lines 32-41: {entity key: header as written in the row}
_get_active_entities(hdrs) ==
  LET hl == headers_lower(hdrs)
      syn == [e \in DOMAIN entity_map |-> first_synonym(entity_map[e], hl)]
  IN  [e \in {x \in DOMAIN entity_map : syn[x] # 0} |->
         hdrs[index(hl, entity_map[e][syn[e]])]]

\* ------------------------------------------------------------------------
\* NLPParser._parse_price_part
\* ------------------------------------------------------------------------

RECURSIVE sub_all(_, _)
\* re.sub(alt1|alt2|..., '', s) for lower-case s
sub_all(s, alts) ==
  IF s = "" THEN ""
  ELSE LET l == AltAt(s, 1, alts)
       IN  IF l > 0 THEN sub_all(DropFirst(s, l), alts)
           ELSE At(s, 1) \o sub_all(DropFirst(s, 1), alts)

Million == 1000000

Thousand == 1000

\* _parse_price_part with the per-item test written 'per_item_count >= 1'
_parse_price_part_ge1(price_str) ==
  IF price_str = "" THEN EmptyDict
  ELSE
    LET cleaned == remove_char(lower(price_str), ",")
        parts == split(cleaned, "/")
        per_item_count == IF Len(parts) > 1 THEN int(parts[2]) ELSE 1
        isMillion == contains(parts[1], "jt") \/ contains(parts[1], "juta")
        isThousand == contains(parts[1], "rb") \/ contains(parts[1], "ribu")
                        \/ contains(parts[1], "k")
        multiplier == IF isMillion THEN Million
                      ELSE IF isThousand THEN Thousand ELSE 1
        main_price_str ==
          IF isMillion THEN sub_all(parts[1], <<"jt", "juta">>)
          ELSE IF isThousand THEN sub_all(parts[1], <<"rb", "ribu", "k">>)
          ELSE parts[1]
        parsed == float(strip(main_price_str))
        base_price == FloatMul(parsed.v, IntVal(multiplier))
    IN  IF ~parsed.ok THEN EmptyDict
        ELSE IF per_item_count >= 1
        THEN [k \in {"total_price", "unit_price"} |->
                IF k = "total_price" THEN base_price
                ELSE FloatDiv(base_price, IntVal(per_item_count))]
        ELSE [k \in {"unit_price"} |-> base_price]

_parse_price_part(price_str) ==
  IF price_str = "" THEN EmptyDict
  ELSE
    LET cleaned == remove_char(lower(price_str), ",")
        parts == split(cleaned, "/")
        per_item_count == IF Len(parts) > 1 THEN int(parts[2]) ELSE 1
        isMillion == contains(parts[1], "jt") \/ contains(parts[1], "juta")
        isThousand == contains(parts[1], "rb") \/ contains(parts[1], "ribu")
                        \/ contains(parts[1], "k")
        multiplier == IF isMillion THEN Million
                      ELSE IF isThousand THEN Thousand ELSE 1
        main_price_str ==
          IF isMillion THEN sub_all(parts[1], <<"jt", "juta">>)
          ELSE IF isThousand THEN sub_all(parts[1], <<"rb", "ribu", "k">>)
          ELSE parts[1]
        parsed == float(strip(main_price_str))
        base_price == FloatMul(parsed.v, IntVal(multiplier))
    IN  IF ~parsed.ok THEN EmptyDict
        ELSE IF per_item_count > 1
        THEN [k \in {"total_price", "unit_price"} |->
                IF k = "total_price" THEN base_price
                ELSE FloatDiv(base_price, IntVal(per_item_count))]
        ELSE [k \in {"unit_price"} |-> base_price]

\* ------------------------------------------------------------------------
\* datetime: a moment is [ordinal |-> proleptic Gregorian day number,
\* second |-> second of that day]
\* ------------------------------------------------------------------------

\* timedelta(days=n) raises OverflowError beyond this magnitude
MaxDeltaDays == 999999999

\* now - timedelta(days=days); the result must not precede datetime.min
minus_days(moment, days) ==
  IF days > MaxDeltaDays \/ moment.ordinal - days < 1
  THEN [ok |-> FALSE, v |-> moment]
  ELSE [ok |-> TRUE,
        v |-> [ordinal |-> moment.ordinal - days, second |-> moment.second]]

DaysBeforeMonth == <<0, 31, 59, 90, 120, 151, 181, 212, 243, 273, 304, 334>>

DaysInMonth == <<31, 28, 31, 30, 31, 30, 31, 31, 30, 31, 30, 31>>

\* Year, month and day of a day number (datetime's ordinal-to-date rule)
ymd(ordinal) ==
  LET n0 == ordinal - 1
      n400 == n0 \div 146097
      r400 == n0 % 146097
      n100 == r400 \div 36524
      r100 == r400 % 36524
      n4 == r100 \div 1461
      r4 == r100 % 1461
      n1 == r4 \div 365
      n == r4 % 365
      year == n400 * 400 + 1 + n100 * 100 + n4 * 4 + n1
      leap == n1 = 3 /\ (n4 # 24 \/ n100 = 3)
      lp(m) == IF m > 2 /\ leap THEN 1 ELSE 0
      m0 == (n + 50) \div 32
      month == IF DaysBeforeMonth[m0] + lp(m0) > n THEN m0 - 1 ELSE m0
  IN  IF n1 = 4 \/ n100 = 4
      THEN [year |-> year - 1, month |-> 12, day |-> 31]
      ELSE [year |-> year, month |-> month,
            day |-> n - (DaysBeforeMonth[month] + lp(month)) + 1]

Pad2(n) == IF n < 10 THEN "0" \o NatToDigits(n) ELSE NatToDigits(n)

\* moment.strftime("%Y-%m-%d %H:%M:%S")
strftime(moment) ==
  LET d == ymd(moment.ordinal)
  IN  NatToDigits(d.year) \o "-" \o Pad2(d.month) \o "-" \o Pad2(d.day)
        \o " " \o Pad2(moment.second \div 3600) \o ":"
        \o Pad2((moment.second % 3600) \div 60) \o ":"
        \o Pad2(moment.second % 60)

\* ------------------------------------------------------------------------
\* NLPParser._parse_relative_date
\* ------------------------------------------------------------------------

\* Index of the last character of a match of \d+\s+hari\s+yang\s+lalu that
\* starts at index i, 0 when there is none.
DaysAgoEnd(s, i) ==
  IF i <= Len(s) /\ At(s, i) \in Digits
  THEN SpacedWordsEnd(s, RunEnd(s, i, Digits), <<"hari", "yang", "lalu">>)
  ELSE 0

\* re.search(r'(\d+)\s+hari\s+yang\s+lalu', s)
days_ago_search(s) ==
  LET I == {i \in 1..Len(s) : DaysAgoEnd(s, i) > 0}
  IN  IF I = {} THEN None
      ELSE Match(s, Min(I), DaysAgoEnd(s, Min(I)),
                 Min(I), RunEnd(s, Min(I), Digits))

\* Index of the last character of a match of
\* (\d+\s+hari\s+yang\s+lalu|kemarin|hari\s+ini)\s*  at index i, 0 when none.
DatePhraseEnd(s, i) ==
  LET e == IF DaysAgoEnd(s, i) > 0 THEN DaysAgoEnd(s, i)
           ELSE IF AltAt(s, i, <<"kemarin">>) > 0 THEN i + 6
           ELSE IF AltAt(s, i, <<"hari">>) > 0
                THEN SpacedWordsEnd(s, i + 3, <<"ini">>)
           ELSE 0
  IN  IF e = 0 THEN 0 ELSE RunEnd(s, e + 1, Whitespace)

RECURSIVE sub_date_phrases(_, _)
\* re.sub(<date phrase pattern>, '', s, flags=re.IGNORECASE), scanning from i
sub_date_phrases(s, i) ==
  IF i > Len(s) THEN ""
  ELSE IF DatePhraseEnd(s, i) > 0 THEN sub_date_phrases(s, DatePhraseEnd(s, i) + 1)
  ELSE At(s, i) \o sub_date_phrases(s, i + 1)

\* _parse_relative_date with 'kemarin' tested before the multi-day pattern
_parse_relative_date_kemarin_first(txt, moment) ==
  LET text_lower == lower(txt)
      match == days_ago_search(text_lower)
      days == IF contains(text_lower, "kemarin") THEN 1
              ELSE IF match # None THEN int(match.group1)
              ELSE 0
      date_found == match # None \/ contains(text_lower, "kemarin")
                      \/ contains(text_lower, "hari ini")
      date == minus_days(moment, days)
  IN  IF ~date.ok THEN [raised |-> TRUE, date |-> moment, text |-> txt]
      ELSE IF date_found
      THEN [raised |-> FALSE, date |-> date.v,
            text |-> strip(sub_date_phrases(txt, 1))]
      ELSE [raised |-> FALSE, date |-> moment, text |-> txt]

\* Returns [raised, date, text]; raised models the OverflowError of the
\* datetime arithmetic on line 86.
_parse_relative_date(txt, moment) ==
  LET text_lower == lower(txt)
      match == days_ago_search(text_lower)
      days == IF match # None THEN int(match.group1)
              ELSE IF contains(text_lower, "kemarin") THEN 1
              ELSE 0
      date_found == match # None \/ contains(text_lower, "kemarin")
                      \/ contains(text_lower, "hari ini")
      date == minus_days(moment, days)
  IN  IF ~date.ok THEN [raised |-> TRUE, date |-> moment, text |-> txt]
      ELSE IF date_found
      THEN [raised |-> FALSE, date |-> date.v,
            text |-> strip(sub_date_phrases(txt, 1))]
      ELSE [raised |-> FALSE, date |-> moment, text |-> txt]

\* ------------------------------------------------------------------------
\* The two searches of NLPParser.parse_transaction
\* ------------------------------------------------------------------------

QuantityEnd(s, i) ==
  LET k == RunEnd(s, RunEnd(s, i, Digits) + 1, Whitespace)
      l == AltAt(s, k + 1, <<"unit", "buah", "pcs">>)
  IN  IF i <= Len(s) /\ At(s, i) \in Digits /\ l > 0 THEN k + l ELSE 0

\* re.search(r'(\d+)\s*(?:unit|buah|pcs)', s, re.IGNORECASE)
quantity_search(s) ==
  LET I == {i \in 1..Len(s) : QuantityEnd(s, i) > 0}
  IN  IF I = {} THEN None
      ELSE Match(s, Min(I), QuantityEnd(s, Min(I)),
                 Min(I), RunEnd(s, Min(I), Digits))

\* Index of the first character of the numeric token of a price match that
\* starts at index i (introducer word, then \s+), 0 when there is none.
PriceTokenStart(s, i) ==
  LET l == AltAt(s, i, <<"harga", "seharga", "senilai">>)
      k == RunEnd(s, i + l, Whitespace)
  IN  IF l > 0 /\ k >= i + l
         /\ RunEnd(s, k + 1, Digits \cup {".", ","}) >= k + 1
      THEN k + 1 ELSE 0

\* Index of the last character of the numeric token that starts at index b:
\* [\d.,]+(?:jt|juta|rb|ribu|k)?(?:\s*\/\s*\d+)?
PriceTokenEnd(s, b) ==
  LET m == RunEnd(s, b, Digits \cup {".", ","})
      e == m + AltAt(s, m + 1, <<"jt", "juta", "rb", "ribu", "k">>)
      q == RunEnd(s, e + 1, Whitespace)
      r == RunEnd(s, q + 2, Whitespace)
      t == RunEnd(s, r + 1, Digits)
  IN  IF At(s, q + 1) = "/" /\ t >= r + 1 THEN t ELSE e

\* re.search(r'(?:harga|seharga|senilai)\s+(<numeric token>)', s, re.IGNORECASE)
price_search(s) ==
  LET I == {i \in 1..Len(s) : PriceTokenStart(s, i) > 0}
  IN  IF I = {} THEN None
      ELSE Match(s, Min(I), PriceTokenEnd(s, PriceTokenStart(s, Min(I))),
                 PriceTokenStart(s, Min(I)),
                 PriceTokenEnd(s, PriceTokenStart(s, Min(I))))

\* ------------------------------------------------------------------------
\* Later stages of NLPParser.parse_transaction and NLPParser.to_row_data
\* ------------------------------------------------------------------------

ContainsAny(s, ws) == \E w \in ws : contains(s, w)

\* infer_transaction_type with the bought words tested before the sold words
infer_transaction_type_bought_first(txt) ==
  IF ContainsAny(lower(txt), {"beli", "dibeli", "membeli"})
  THEN StrVal("bought")
  ELSE IF ContainsAny(lower(txt), {"terjual", "dijual", "laku"})
  THEN StrVal("sold")
  ELSE IF ContainsAny(lower(txt), {"biaya", "pengeluaran"})
  THEN StrVal("expense")
  ELSE NoneVal

\* Lines 130-135: the value of transaction_type, NoneVal when no word occurs
infer_transaction_type(txt) ==
  IF ContainsAny(lower(txt), {"terjual", "dijual", "laku"}) THEN StrVal("sold")
  ELSE IF ContainsAny(lower(txt), {"beli", "dibeli", "membeli"})
  THEN StrVal("bought")
  ELSE IF ContainsAny(lower(txt), {"biaya", "pengeluaran"})
  THEN StrVal("expense")
  ELSE NoneVal

RECURSIVE sub_action_words(_)
\* re.sub(r'terjual|dijual|laku|beli|dibeli|membeli|biaya|pengeluaran', '',
\*        s, flags=re.IGNORECASE)
sub_action_words(s) ==
  LET l == AltAt(s, 1, <<"terjual", "dijual", "laku", "beli", "dibeli",
                         "membeli", "biaya", "pengeluaran">>)
  IN  IF s = "" THEN ""
      ELSE IF l > 0 THEN sub_action_words(DropFirst(s, l))
      ELSE At(s, 1) \o sub_action_words(DropFirst(s, 1))

\* derive_item_name without the final strip()
derive_item_name_unstripped(txt) == sub_action_words(txt)

\* Lines 139-140
derive_item_name(txt) == strip(sub_action_words(txt))

\* reconcile without the schema gate on either branch
reconcile_ungated(res, active) ==
  LET qty == dict_get(res, "quantity")
      unit_price == dict_get(res, "unit_price")
      total_price == dict_get(res, "total_price")
      r1 == IF Truthy(qty) /\ Truthy(unit_price) /\ ~Truthy(total_price)
            THEN dict_set(res, "total_price", FloatMul(qty, unit_price))
            ELSE res
  IN  IF Truthy(qty) /\ Truthy(total_price) /\ ~Truthy(unit_price)
      THEN dict_set(r1, "unit_price",
                    IF Positive(qty) THEN FloatDiv(total_price, qty)
                    ELSE IntVal(0))
      ELSE r1

\* Lines 143-151: post-processing and calculation
reconcile(res, active) ==
  LET qty == dict_get(res, "quantity")
      unit_price == dict_get(res, "unit_price")
      total_price == dict_get(res, "total_price")
      r1 == IF Truthy(qty) /\ Truthy(unit_price)
               /\ "total_price" \in DOMAIN active /\ ~Truthy(total_price)
            THEN dict_set(res, "total_price", FloatMul(qty, unit_price))
            ELSE res
  IN  IF Truthy(qty) /\ Truthy(total_price)
         /\ "unit_price" \in DOMAIN active /\ ~Truthy(unit_price)
      THEN dict_set(r1, "unit_price",
                    IF Positive(qty) THEN FloatDiv(total_price, qty)
                    ELSE IntVal(0))
      ELSE r1

\* Lines 160-163: {header_name: entity_key}; a later entity of the map
\* replaces an earlier one under the same header name.
header_to_entity_map(active) ==
  [h \in {active[e] : e \in DOMAIN active} |->
     LET K == {k \in 1..Len(entity_keys) :
                 entity_keys[k] \in DOMAIN active /\ active[entity_keys[k]] = h}
     IN  entity_keys[CHOOSE k \in K : \A j \in K : j <= k]]

\* to_row_data that appends a cell only for the headers that resolve to an
\* entity instead of pre-filling one cell per header
to_row_data_append(parsed_data, hdrs) ==
  LET h2e == header_to_entity_map(_get_active_entities(hdrs))
      cell(h) == IF h2e[h] \in DOMAIN parsed_data /\ Truthy(parsed_data[h2e[h]])
                 THEN str(parsed_data[h2e[h]]) ELSE ""
      mapped == SelectSeq(hdrs, LAMBDA h : h \in DOMAIN h2e)
  IN  [i \in 1..Len(mapped) |-> cell(mapped[i])]

to_row_data(parsed_data, hdrs) ==
  LET h2e == header_to_entity_map(_get_active_entities(hdrs))
  IN  [i \in 1..Len(hdrs) |->
         IF hdrs[i] \in DOMAIN h2e /\ h2e[hdrs[i]] \in DOMAIN parsed_data
         THEN (IF Truthy(parsed_data[h2e[hdrs[i]]])
               THEN str(parsed_data[h2e[hdrs[i]]]) ELSE "")
         ELSE ""]

\* ------------------------------------------------------------------------
\* The methods as calls on the one NLPParser instance the handlers share:
\* each returns, with its result, the instance and the argument objects as
\* the call leaves them
\* ------------------------------------------------------------------------

\* Lines 15-25: the instance __init__ builds
NLPParser == [entity_map |-> entity_map]

\* Lines 32-41 over the synonym table emap
resolve_entities(emap, hdrs) ==
  LET hl == headers_lower(hdrs)
      syn == [e \in DOMAIN emap |-> first_synonym(emap[e], hl)]
  IN  [e \in {x \in DOMAIN emap : syn[x] # 0} |->
         hdrs[index(hl, emap[e][syn[e]])]]

\* _get_active_entities that normalises the header list in place
self_get_active_entities_lowering(self, hdrs) ==
  [self |-> self, headers |-> headers_lower(hdrs),
   active |-> resolve_entities(self.entity_map, headers_lower(hdrs))]

\* Lines 27-41: self and headers are only read
self_get_active_entities(self, hdrs) ==
  [self |-> self, headers |-> hdrs,
   active |-> resolve_entities(self.entity_map, hdrs)]

\* Lines 107-112: the locals after the date stage
parse_date_stage(self, txt, hdrs, moment) ==
  LET a == self_get_active_entities(self, hdrs)
      d == _parse_relative_date(txt, moment)
  IN  [self |-> a.self, headers |-> a.headers, active_entities |-> a.active,
       raised |-> d.raised,
       results |-> dict_set(EmptyDict, "timestamp", StrVal(strftime(d.date))),
       clean_text |-> d.text]

\* Lines 116-127: both searches, then the quantity and the price stage
parse_numbers_stage(loc) ==
  LET qm == quantity_search(loc.clean_text)
      pm == price_search(loc.clean_text)
      r1 == IF qm # None
            THEN dict_set(loc.results, "quantity", IntVal(int(qm.group1)))
            ELSE loc.results
      t1 == IF qm # None THEN replace_first(loc.clean_text, qm.group0)
            ELSE loc.clean_text
  IN  [loc EXCEPT
         !.results = IF pm # None
                     THEN dict_update(r1, _parse_price_part(pm.group1))
                     ELSE r1,
         !.clean_text = IF pm # None THEN replace_first(t1, pm.group0)
                        ELSE t1]

\* Lines 130-153: type, item name and back-fill; nothing is returned when
\* the date stage raised
parse_rest_stage(loc) ==
  LET r3 == IF infer_transaction_type(loc.clean_text) # NoneVal
            THEN dict_set(loc.results, "transaction_type",
                          infer_transaction_type(loc.clean_text))
            ELSE loc.results
      r4 == dict_set(r3, "item_name",
                     StrVal(derive_item_name(loc.clean_text)))
  IN  [loc EXCEPT
         !.results = IF loc.raised THEN EmptyDict
                     ELSE reconcile(r4, loc.active_entities)]

\* parse_transaction that keeps in self.entity_map only the entities the
\* headers of this call resolve
self_parse_transaction_pruning(self, txt, hdrs, moment) ==
  CHOOSE r \in
    {[l3 EXCEPT !.self = [entity_map |-> [e \in DOMAIN l3.active_entities |->
                                           self.entity_map[e]]]] :
       l3 \in {parse_rest_stage(l2) :
                l2 \in {parse_numbers_stage(l1) :
                         l1 \in {parse_date_stage(self, txt, hdrs,
                                                  moment)}}}} : TRUE

\* Lines 102-153, each stage applied to the locals the stage before it
\* leaves: no attribute of self is assigned, headers is only read
self_parse_transaction(self, txt, hdrs, moment) ==
  CHOOSE r \in
    {parse_rest_stage(l2) :
       l2 \in {parse_numbers_stage(l1) :
                l1 \in {parse_date_stage(self, txt, hdrs, moment)}}} : TRUE

\* Lines 157, 160-168 for a given active entity map
row_of(active, parsed_data, hdrs) ==
  LET h2e == header_to_entity_map(active)
  IN  [i \in 1..Len(hdrs) |->
         IF hdrs[i] \in DOMAIN h2e /\ h2e[hdrs[i]] \in DOMAIN parsed_data
         THEN (IF Truthy(parsed_data[h2e[hdrs[i]]])
               THEN str(parsed_data[h2e[hdrs[i]]]) ELSE "")
         ELSE ""]

\* Lines 155-170: self, parsed_data and headers are only read
self_to_row_data(self, parsed_data, hdrs) ==
  LET a == self_get_active_entities(self, hdrs)
  IN  [self |-> a.self, headers |-> a.headers, parsed_data |-> parsed_data,
       active_entities |-> a.active,
       row_data |-> row_of(a.active, parsed_data, a.headers)]

\* ------------------------------------------------------------------------
\* Inputs
\* ------------------------------------------------------------------------

\* Phrases a chat message is composed of
Phrases ==
  {"Laptop", "terjual", "beli", "biaya", "2 unit", "0 unit", "unit", "harga",
   "harga 10000", "harga 3.6jt/3", "harga 1.500.000", "3 hari yang lalu",
   "1000000 hari yang lalu", "kemarin", "hari ini"}

PhraseLists == UNION {[1..n -> Phrases] : n \in 1..MaxWords}

\* The message of the worked example: 'Laptop terjual 2 unit harga 3.6jt'
ExampleMessages == {<<"Laptop", "terjual", "2 unit", "harga 3.6jt">>}

RECURSIVE Join(_)
\* " ".join(ws)
Join(ws) ==
  IF Len(ws) = 1 THEN ws[1] ELSE ws[1] \o " " \o Join(Tail(ws))

\* Header rows of the sheet (row 1 as GSheetService.get_headers returns it)
HeaderRows ==
  {<<"timestamp", "item", "qty", "unit_price", "total_price">>,
   <<"timestamp", "item", "qty", "unit_price">>,
   <<"timestamp", "Item", "Qty", "Harga Satuan", "Total">>,
   <<"timestamp", "Nama", "Jumlah", "Harga">>,
   <<"timestamp", " Barang ", "QTY", "qty", "Satuan", "Catatan">>,
   <<"timestamp", "item_name", "quantity", "unit_price", "total_price",
     "transaction_type">>}

\* config.py line 36: the header every sheet carries in its first column
MANDATORY_HEADER == "timestamp"

\* Readings of datetime.now(): 2026-11-03 23:01:27
Clock == {[ordinal |-> 739923, second |-> 82887]}

\* ------------------------------------------------------------------------
\* State
\* ------------------------------------------------------------------------

VARIABLES
  words,            \* the phrases of the incoming message
  text,             \* message.text.strip()
  headers,          \* the header row read from the sheet
  now,              \* the reading of datetime.now()
  pc,               \* position of the handler / parser
  active_entities,  \* parse_transaction: active_entities
  results,          \* parse_transaction: results
  clean_text,       \* parse_transaction: clean_text
  quantity_match,   \* parse_transaction: quantity_match
  price_match,      \* parse_transaction: price_match
  price_str,        \* _parse_price_part: price_str
  price_data,       \* parse_transaction: price_data
  row_data,         \* the row handed to add_row / update_row
  parser,           \* MessageHandler.nlp_parser: the one shared instance
  sessions,         \* per chat: the locals of its running _handle_input_data
  states,           \* StateManager._states, in insertion order
  state_file,       \* the JSON file at Config.STATE_FILE
  sheet,            \* the worksheet: its rows, the header row first
  keyboards,        \* per user: the inline buttons of the messages sent
  call,             \* the handler that ran last and the service calls it made
  row_ids           \* history: which entry each sheet row holds, and the
                    \* entry each user was shown when they picked a row

vars ==
  <<words, text, headers, now, pc, active_entities, results, clean_text,
    quantity_match, price_match, price_str, price_data, row_data, parser,
    sessions, states, state_file, sheet, keyboards, call, row_ids>>

inputs == <<words, text, headers, now>>

shared == <<parser, sessions>>

bot == <<states, state_file, sheet, keyboards, call, row_ids>>

NoRowIds == [ids |-> <<>>, next |-> 1, picked |-> <<>>]

\* Before the bot is started: StateManager.__init__ (state_manager.py lines
\* 17-21), no state file, no worksheet opened, no message sent.
BotOff ==
  /\ states = <<>>
  /\ state_file = [exists |-> FALSE, members |-> <<>>]
  /\ sheet = <<>>
  /\ keyboards = <<>>
  /\ call = [handler |-> "none"]
  /\ row_ids = NoRowIds

Locals ==
  /\ active_entities = EmptyDict
  /\ results = EmptyDict
  /\ clean_text = ""
  /\ quantity_match = None
  /\ price_match = None
  /\ price_str = ""
  /\ price_data = EmptyDict
  /\ row_data = <<>>
  /\ parser = NLPParser
  /\ sessions = <<>>

\* A text message arrives in input mode and the sheet has headers
\* (message_handler.py lines 50-61).
Init ==
  /\ words \in PhraseLists \cup ExampleMessages
  /\ text = strip(Join(words))
  /\ headers \in HeaderRows
  /\ now \in Clock
  /\ pc = "parse"
  /\ Locals
  /\ BotOff

\* Lines 107-112
ParseDate ==
  /\ pc = "parse"
  /\ LET r == _parse_relative_date(text, now)
     IN  /\ active_entities' = _get_active_entities(headers)
         /\ IF r.raised
            THEN /\ pc' = "raised"
                 /\ UNCHANGED <<results, clean_text>>
            ELSE /\ pc' = "search"
                 /\ results' = dict_set(EmptyDict, "timestamp",
                                        StrVal(strftime(r.date)))
                 /\ clean_text' = r.text
  /\ UNCHANGED <<inputs, bot, shared, quantity_match, price_match, price_str, price_data,
                 row_data>>

\* Lines 116-117
SearchNumbers ==
  /\ pc = "search"
  /\ quantity_match' = quantity_search(clean_text)
  /\ price_match' = price_search(clean_text)
  /\ pc' = "quantity"
  /\ UNCHANGED <<inputs, bot, shared, active_entities, results, clean_text, price_str,
                 price_data, row_data>>

\* Lines 119-122
ExtractQuantity ==
  /\ pc = "quantity"
  /\ IF quantity_match # None
     THEN /\ results' = dict_set(results, "quantity",
                                 IntVal(int(quantity_match.group1)))
          /\ clean_text' = replace_first(clean_text, quantity_match.group0)
     ELSE UNCHANGED <<results, clean_text>>
  /\ pc' = "price"
  /\ UNCHANGED <<inputs, bot, shared, active_entities, quantity_match, price_match,
                 price_str, price_data, row_data>>

\* Lines 124-127
ExtractPrice ==
  /\ pc = "price"
  /\ IF price_match # None
     THEN /\ price_str' = price_match.group1
          /\ price_data' = _parse_price_part(price_match.group1)
          /\ results' = dict_update(results,
                                    _parse_price_part(price_match.group1))
          /\ clean_text' = replace_first(clean_text, price_match.group0)
     ELSE UNCHANGED <<price_str, price_data, results, clean_text>>
  /\ pc' = "type"
  /\ UNCHANGED <<inputs, bot, shared, active_entities, quantity_match, price_match,
                 row_data>>

\* Lines 130-135
InferType ==
  /\ pc = "type"
  /\ results' = IF infer_transaction_type(clean_text) # NoneVal
                THEN dict_set(results, "transaction_type",
                              infer_transaction_type(clean_text))
                ELSE results
  /\ pc' = "item"
  /\ UNCHANGED <<inputs, bot, shared, active_entities, clean_text, quantity_match,
                 price_match, price_str, price_data, row_data>>

\* Lines 139-140
DeriveItemName ==
  /\ pc = "item"
  /\ results' = dict_set(results, "item_name",
                         StrVal(derive_item_name(clean_text)))
  /\ pc' = "reconcile"
  /\ UNCHANGED <<inputs, bot, shared, active_entities, clean_text, quantity_match,
                 price_match, price_str, price_data, row_data>>

\* Lines 143-153: the record is returned to the handler
Reconcile ==
  /\ pc = "reconcile"
  /\ results' = reconcile(results, active_entities)
  /\ pc' = "parsed"
  /\ UNCHANGED <<inputs, bot, shared, active_entities, clean_text, quantity_match,
                 price_match, price_str, price_data, row_data>>

\* message_handler.py line 62: to_row_data(parsed_data, headers)
ToRowData ==
  /\ pc = "parsed"
  /\ row_data' = to_row_data(results, headers)
  /\ pc' = "done"
  /\ UNCHANGED <<inputs, bot, shared, active_entities, results, clean_text,
                 quantity_match, price_match, price_str, price_data>>

Next ==
  \/ ParseDate
  \/ SearchNumbers
  \/ ExtractQuantity
  \/ ExtractPrice
  \/ InferType
  \/ DeriveItemName
  \/ Reconcile
  \/ ToRowData

Spec == Init /\ [][Next]_vars

\* ------------------------------------------------------------------------
\* NLPParser._parse_price_part applied on its own to price tokens
\* ------------------------------------------------------------------------

\* Numeric prefixes of a price token, with the value of the parseable ones
\* after the thousands-separator commas are dropped (num/den)
PricePrefixes ==
  {[s |-> "3.6", ok |-> TRUE, num |-> 36, den |-> 10],
   [s |-> "500", ok |-> TRUE, num |-> 500, den |-> 1],
   [s |-> "2", ok |-> TRUE, num |-> 2, den |-> 1],
   [s |-> "0.5", ok |-> TRUE, num |-> 1, den |-> 2],
   [s |-> "1,5", ok |-> TRUE, num |-> 15, den |-> 1],
   [s |-> "1,000", ok |-> TRUE, num |-> 1000, den |-> 1],
   [s |-> "1.500.000", ok |-> FALSE, num |-> 0, den |-> 1],
   [s |-> ".", ok |-> FALSE, num |-> 0, den |-> 1],
   [s |-> ",", ok |-> FALSE, num |-> 0, den |-> 1]}

\* Magnitude suffixes with their multiplier
PriceSuffixes ==
  {[s |-> "", mult |-> 1],
   [s |-> "jt", mult |-> 1000000], [s |-> "juta", mult |-> 1000000],
   [s |-> "JT", mult |-> 1000000],
   [s |-> "rb", mult |-> 1000], [s |-> "ribu", mult |-> 1000],
   [s |-> "k", mult |-> 1000]}

\* '/N' suffixes with their N (n = -1: no suffix)
PriceSlashes ==
  {[s |-> "", n |-> -1], [s |-> "/0", n |-> 0], [s |-> "/1", n |-> 1],
   [s |-> "/2", n |-> 2], [s |-> "/3", n |-> 3], [s |-> " / 2", n |-> 2]}

InitPrice ==
  /\ \E p \in PricePrefixes, m \in PriceSuffixes, n \in PriceSlashes :
       /\ words = <<p.s, m.s, n.s>>
       /\ price_str = p.s \o m.s \o n.s
  /\ text = ""
  /\ headers = <<>>
  /\ now \in Clock
  /\ pc = "price_call"
  /\ active_entities = EmptyDict
  /\ results = EmptyDict
  /\ clean_text = ""
  /\ quantity_match = None
  /\ price_match = None
  /\ price_data = EmptyDict
  /\ row_data = <<>>
  /\ parser = NLPParser
  /\ sessions = <<>>
  /\ BotOff

\* Lines 43-74
ParsePricePart ==
  /\ pc = "price_call"
  /\ price_data' = _parse_price_part(price_str)
  /\ pc' = "price_return"
  /\ UNCHANGED <<inputs, bot, shared, active_entities, results, clean_text,
                 quantity_match, price_match, price_str, row_data>>

NextPrice == ParsePricePart

SpecPrice == InitPrice /\ [][NextPrice]_vars

\* ------------------------------------------------------------------------
\* NLPParser._get_active_entities applied on its own to header rows
\* ------------------------------------------------------------------------

MaxHeaders == 3

\* Header cells as written in row 1 of a sheet, with the text each one has
\* once lower-cased and trimmed
HeaderNames ==
  {[s |-> "timestamp", norm |-> "timestamp"],
   [s |-> "Qty", norm |-> "qty"],
   [s |-> "qty", norm |-> "qty"],
   [s |-> " Jumlah ", norm |-> "jumlah"],
   [s |-> "Harga", norm |-> "harga"],
   [s |-> " TOTAL", norm |-> "total"],
   [s |-> "Harga Satuan", norm |-> "harga satuan"],
   [s |-> "item_name", norm |-> "item_name"],
   [s |-> "Catatan", norm |-> "catatan"]}

HeaderLists ==
  UNION {[1..n -> {h.s : h \in HeaderNames}] : n \in 1..MaxHeaders}

InitResolve ==
  /\ headers \in HeaderLists
  /\ words = <<>>
  /\ text = ""
  /\ now \in Clock
  /\ pc = "resolve_call"
  /\ Locals
  /\ BotOff

\* Lines 27-41
GetActiveEntities ==
  /\ pc = "resolve_call"
  /\ active_entities' = _get_active_entities(headers)
  /\ pc' = "resolve_return"
  /\ UNCHANGED <<inputs, bot, shared, results, clean_text, quantity_match, price_match,
                 price_str, price_data, row_data>>

NextResolve == GetActiveEntities

SpecResolve == InitResolve /\ [][NextResolve]_vars

\* ------------------------------------------------------------------------
\* Two chats in input mode whose handlers call the shared parser
\* ------------------------------------------------------------------------

Sessions == {"chat_a", "chat_b"}

\* Messages the chats send
SessionTexts ==
  {"Laptop terjual", "2 unit harga 10000", "kemarin beli 0 unit",
   "1000000 hari yang lalu"}

\* The locals of _handle_input_data once the headers are read (lines 50-58);
\* sheet_headers is the row as read, headers the list object the parser is
\* handed
NewSession(t, h) ==
  [pc |-> "parse", text |-> t, sheet_headers |-> h, headers |-> h,
   parsed_data |-> EmptyDict, active_entities |-> EmptyDict,
   row_active |-> EmptyDict, row_data |-> <<>>]

InitShared ==
  /\ parser = NLPParser
  /\ sessions \in [Sessions -> {NewSession(t, h) : t \in SessionTexts,
                                                   h \in HeaderRows}]
  /\ now \in Clock
  /\ words = <<>>
  /\ text = ""
  /\ headers = <<>>
  /\ pc = "sessions"
  /\ BotOff
  /\ active_entities = EmptyDict
  /\ results = EmptyDict
  /\ clean_text = ""
  /\ quantity_match = None
  /\ price_match = None
  /\ price_str = ""
  /\ price_data = EmptyDict
  /\ row_data = <<>>

\* message_handler.py line 61; an exception ends the handler (lines 82-83)
SessionParse(s) ==
  /\ sessions[s].pc = "parse"
  /\ \E r \in {self_parse_transaction(parser, sessions[s].text,
                                      sessions[s].headers, now)} :
         /\ parser' = r.self
         /\ sessions' =
              [sessions EXCEPT
                 ![s] = [@ EXCEPT !.pc = IF r.raised THEN "failed"
                                         ELSE "project",
                                  !.headers = r.headers,
                                  !.active_entities = r.active_entities,
                                  !.parsed_data = r.results]]
  /\ UNCHANGED <<inputs, bot, pc, active_entities, results, clean_text,
                 quantity_match, price_match, price_str, price_data,
                 row_data>>

\* message_handler.py line 62
SessionProject(s) ==
  /\ sessions[s].pc = "project"
  /\ \E r \in {self_to_row_data(parser, sessions[s].parsed_data,
                                sessions[s].headers)} :
         /\ parser' = r.self
         /\ sessions' =
              [sessions EXCEPT
                 ![s] = [@ EXCEPT !.pc = "done",
                                  !.headers = r.headers,
                                  !.parsed_data = r.parsed_data,
                                  !.row_active = r.active_entities,
                                  !.row_data = r.row_data]]
  /\ UNCHANGED <<inputs, bot, pc, active_entities, results, clean_text,
                 quantity_match, price_match, price_str, price_data,
                 row_data>>

NextShared ==
  \E s \in Sessions :
    \/ SessionParse(s)
    \/ SessionProject(s)

SpecShared == InitShared /\ [][NextShared]_vars

\* ------------------------------------------------------------------------
\* StateManager (state_manager.py)
\* ------------------------------------------------------------------------

\* A Python dict as the sequence of its items [k, v] in insertion order.
od_has(d, k) == \E i \in 1..Len(d) : d[i].k = k

od_get(d, k) == d[CHOOSE i \in 1..Len(d) : d[i].k = k].v

\* d[k] = v: an existing key keeps its position
od_set(d, k, v) ==
  IF od_has(d, k)
    THEN [i \in 1..Len(d) |-> IF d[i].k = k THEN [k |-> k, v |-> v] ELSE d[i]]
    ELSE Append(d, [k |-> k, v |-> v])

IDLE_MODE == "idle"
INPUT_MODE == "input"
AWAITING_HEADER_ADD == "awaiting_header_add"
AWAITING_HEADER_RENAME_NEW_NAME == "awaiting_header_rename_new_name"
AWAITING_UPDATED_ROW_TEXT == "awaiting_updated_row_text"

\* The values of the environment variables DEFAULT_SPREADSHEET_ID and
\* DEFAULT_SHEET_NAME of the deployment.
DEFAULT_SPREADSHEET_ID == "spreadsheet-1"
DEFAULT_SHEET_NAME == "Sheet1"

\* Lines 50-54: the state of a user seen for the first time
default_state ==
  [k \in {"mode", "current_spreadsheet_id", "current_sheet_name"} |->
     CASE k = "mode" -> StrVal(IDLE_MODE)
       [] k = "current_spreadsheet_id" -> StrVal(DEFAULT_SPREADSHEET_ID)
       [] OTHER -> StrVal(DEFAULT_SHEET_NAME)]

\* json.dumps(self._states, indent=4): the members of the JSON object in the
\* order of the dict; a key that is an int is written as its decimal string,
\* and two keys with the same string give two members (line 40).
json_dumps(d) == [i \in 1..Len(d) |-> [k |-> str(d[i].k), v |-> d[i].v]]

\* json.loads: an object becomes a dict with str keys; of two members with
\* the same name the later value is kept (line 29).
RECURSIVE json_loads_from(_, _, _)
json_loads_from(members, i, d) ==
  IF i > Len(members) THEN d
  ELSE json_loads_from(members, i + 1,
                       od_set(d, StrVal(members[i].k), members[i].v))

json_loads(members) == json_loads_from(members, 1, <<>>)

\* {int(k): v for k, v in ....items()} (line 29)
RECURSIVE int_keys_from(_, _, _)
int_keys_from(d, i, out) ==
  IF i > Len(d) THEN out
  ELSE int_keys_from(d, i + 1, od_set(out, IntVal(int(d[i].k.s)), d[i].v))

\* Lines 23-33: a missing file gives no states
load_states(file) ==
  IF file.exists THEN int_keys_from(json_loads(file.members), 1, <<>>)
  ELSE <<>>

\* Lines 35-42
save_states(d) == [exists |-> TRUE, members |-> json_dumps(d)]

\* Lines 44-56: the call's effect on _states and on the file, and the dict
\* it returns (the object stored in _states).
get_user_state(d, file, user_id) ==
  IF od_has(d, StrVal(str(IntVal(user_id))))
    THEN [states |-> d, file |-> file,
          state |-> od_get(d, StrVal(str(IntVal(user_id))))]
    ELSE [states |-> od_set(d, StrVal(str(IntVal(user_id))), default_state),
          file |-> save_states(od_set(d, StrVal(str(IntVal(user_id))),
                                      default_state)),
          state |-> default_state]

\* Lines 58-69
update_user_state(d, file, user_id, kwargs) ==
  CHOOSE r \in
    {[states |-> od_set(g.states, StrVal(str(IntVal(user_id))),
                        dict_update(g.state, kwargs)),
      file |-> save_states(od_set(g.states, StrVal(str(IntVal(user_id))),
                                  dict_update(g.state, kwargs)))] :
       g \in {get_user_state(d, file, user_id)}} : TRUE

\* ------------------------------------------------------------------------
\* The state store across restarts of the bot (state_manager.py, main.py)
\* ------------------------------------------------------------------------

RECURSIVE replace_all(_, _)
\* s.replace(old, '') for a non-empty old
replace_all(s, old) ==
  IF find(s, old) = 0 THEN s
  ELSE Slice(s, 1, find(s, old) - 1) \o
       replace_all(DropFirst(s, find(s, old) + Len(old) - 1), old)

\* s.startswith(prefix)
startswith(s, prefix) == Slice(s, 1, Len(prefix)) = prefix

\* Telegram user ids
Users == {7, 42}

user_key(user_id) == StrVal(str(IntVal(user_id)))

\* The keyword arguments the handlers pass to update_user_state
StateUpdates ==
  {[k \in {"mode"} |-> StrVal(INPUT_MODE)],
   [k \in {"mode", "header_to_rename"} |->
      IF k = "mode" THEN StrVal(AWAITING_HEADER_RENAME_NEW_NAME)
      ELSE StrVal("item")],
   [k \in {"mode", "header_to_rename"} |->
      IF k = "mode" THEN StrVal(IDLE_MODE) ELSE NoneVal]}

\* The variables of the parser, which the bot's handlers leave alone
parsing ==
  <<inputs, pc, active_entities, results, clean_text, quantity_match,
    price_match, price_str, price_data, row_data, parser, sessions>>

ParserIdle ==
  /\ words = <<>>
  /\ text = ""
  /\ headers = <<>>
  /\ now \in Clock
  /\ Locals

\* main.py lines 43-47 and 86-90: a first start, with no state file
InitState ==
  /\ ParserIdle
  /\ pc = "states"
  /\ BotOff

\* state_manager.py lines 44-56
GetUserState(u) ==
  /\ \E g \in {get_user_state(states, state_file, u)} :
       /\ states' = g.states
       /\ state_file' = g.file
       /\ call' = [handler |-> "get_user_state", user |-> u]
  /\ UNCHANGED <<parsing, row_ids, sheet, keyboards>>

\* state_manager.py lines 58-69
UpdateUserState(u, kwargs) ==
  /\ \E r \in {update_user_state(states, state_file, u, kwargs)} :
       /\ states' = r.states
       /\ state_file' = r.file
  /\ call' = [handler |-> "update_user_state", user |-> u]
  /\ UNCHANGED <<parsing, row_ids, sheet, keyboards>>

\* The process ends, with or without reaching the finally of start()
\* (main.py lines 113-114), and a new TelegramBot loads the file
\* (main.py lines 43 and 89).
Restart ==
  /\ \E graceful \in BOOLEAN :
       \E file \in {IF graceful THEN save_states(states) ELSE state_file} :
         /\ state_file' = file
         /\ states' = load_states(file)
  /\ call' = [handler |-> "start"]
  /\ UNCHANGED <<parsing, row_ids, sheet, keyboards>>

NextState ==
  \/ \E u \in Users : GetUserState(u)
  \/ \E u \in Users, kwargs \in StateUpdates : UpdateUserState(u, kwargs)
  \/ Restart

SpecState == InitState /\ [][NextState]_vars

\* ------------------------------------------------------------------------
\* GSheetService (gsheet_service.py)
\* ------------------------------------------------------------------------

\* The worksheet is the sequence of its rows, each the sequence of its cells;
\* row 1 is the header row.  What gspread's calls do to it:

RECURSIVE rtrim_cells(_)
rtrim_cells(row) ==
  IF row # <<>> /\ row[Len(row)] = "" THEN rtrim_cells(SubSeq(row, 1, Len(row) - 1))
  ELSE row

\* worksheet.row_values(n): the cells of row n up to the last filled one
row_values(ws, n) == IF n <= Len(ws) THEN rtrim_cells(ws[n]) ELSE <<>>

\* worksheet.delete_rows(n)
delete_rows(ws, n) ==
  IF n <= Len(ws) THEN SubSeq(ws, 1, n - 1) \o SubSeq(ws, n + 1, Len(ws))
  ELSE ws

\* worksheet.insert_row(values, n)
insert_row(ws, values, n) ==
  SubSeq(ws, 1, n - 1) \o <<values>> \o SubSeq(ws, n, Len(ws))

\* the cells of one row after cells[col] = value, padded with empty cells
set_cell(row, col, value) ==
  [c \in 1..(IF col > Len(row) THEN col ELSE Len(row)) |->
     IF c = col THEN value ELSE IF c <= Len(row) THEN row[c] ELSE ""]

\* worksheet.update_cell(r, col, value)
update_cell(ws, r, col, value) ==
  [n \in 1..(IF r > Len(ws) THEN r ELSE Len(ws)) |->
     IF n = r THEN set_cell(IF n <= Len(ws) THEN ws[n] ELSE <<>>, col, value)
     ELSE IF n <= Len(ws) THEN ws[n] ELSE <<>>]

\* worksheet.find(name, in_row=1): the column of the first cell of the header
\* row whose value is name, 0 for None
find_in_header(ws, name) ==
  IF Len(ws) >= 1 /\ \E c \in 1..Len(ws[1]) : ws[1][c] = name
    THEN CHOOSE c \in 1..Len(ws[1]) :
           /\ ws[1][c] = name
           /\ \A b \in 1..(c - 1) : ws[1][b] # name
    ELSE 0

\* worksheet.delete_columns(col)
delete_columns(ws, col) ==
  [n \in 1..Len(ws) |->
     IF col <= Len(ws[n])
       THEN SubSeq(ws[n], 1, col - 1) \o SubSeq(ws[n], col + 1, Len(ws[n]))
       ELSE ws[n]]

\* worksheet.append_row(values)
append_row(ws, values) == Append(ws, values)

RECURSIVE write_cells(_, _, _)
write_cells(row, values, c) ==
  IF c > Len(values) THEN row
  ELSE write_cells(set_cell(row, c, values[c]), values, c + 1)

\* worksheet.update('A<n>', [values]): the cells of row n from column A on
\* are overwritten, the others stay; a row below the last one is filled in
update_range(ws, n, values) ==
  IF values = <<>> THEN ws
  ELSE [r \in 1..(IF n > Len(ws) THEN n ELSE Len(ws)) |->
          IF r = n THEN write_cells(IF r <= Len(ws) THEN ws[r] ELSE <<>>,
                                    values, 1)
          ELSE IF r <= Len(ws) THEN ws[r] ELSE <<>>]

\* The gspread call that raises while a service method runs ("none": no call
\* raises).
Faults ==
  {"none", "worksheet", "row_values", "delete_rows", "insert_row",
   "update_cell", "find", "delete_columns", "get_all_values", "append_row",
   "update"}

\* Lines 71-79: [] when the worksheet or the row cannot be read
get_headers(ws, fault) ==
  IF fault \in {"worksheet", "row_values"} THEN <<>> ELSE row_values(ws, 1)

is_other_header(h) == lower(h) # MANDATORY_HEADER

\* Lines 46-50
new_headers(hdrs) == <<MANDATORY_HEADER>> \o SelectSeq(hdrs, is_other_header)

\* Lines 36-59: the worksheet as the call leaves it, and whether a gspread
\* call raised on the way (every exception is swallowed, also the one that
\* get_headers turns into an empty header list).
ensure_mandatory_header_is_first(ws, fault) ==
  IF fault = "worksheet" THEN [sheet |-> ws, error |-> TRUE]
  ELSE IF get_headers(ws, fault) = <<>>
    THEN IF fault = "insert_row" THEN [sheet |-> ws, error |-> TRUE]
         ELSE [sheet |-> insert_row(ws, new_headers(<<>>), 1),
               error |-> fault = "row_values"]
  ELSE IF lower(get_headers(ws, fault)[1]) # MANDATORY_HEADER
    THEN IF fault = "delete_rows" THEN [sheet |-> ws, error |-> TRUE]
         ELSE IF fault = "insert_row"
           THEN [sheet |-> delete_rows(ws, 1), error |-> TRUE]
         ELSE [sheet |-> insert_row(delete_rows(ws, 1),
                                    new_headers(get_headers(ws, fault)), 1),
               error |-> FALSE]
  ELSE [sheet |-> ws, error |-> FALSE]

\* A slice that keeps the whole list, whatever the limit
recent_start_whole(n, limit) == 0

\* data_rows[-limit:] of a list of n rows (line 92): the number of rows the
\* slice leaves out at the front, with Python's clipping of the start index
recent_start(n, limit) ==
  IF limit > 0 THEN (IF n - limit > 0 THEN n - limit ELSE 0)
  ELSE (IF 0 - limit < n THEN 0 - limit ELSE n)

\* len(all_values[1:]) (line 91)
data_rows_count(ws) == IF Len(ws) > 0 THEN Len(ws) - 1 ELSE 0

\* len(recent_rows_data) (lines 92, 97)
recent_count(ws, limit) ==
  data_rows_count(ws) - recent_start(data_rows_count(ws), limit)

\* Lines 81-103: per recent data row its number in the sheet, computed as
\* total_rows - len(recent_rows_data) + i + 1 (line 97), and its cells; []
\* when a gspread call raises
get_recent_rows(ws, limit, fault) ==
  IF fault \in {"worksheet", "get_all_values"} THEN <<>>
  ELSE [i \in 1..recent_count(ws, limit) |->
          [row_number |-> Len(ws) - recent_count(ws, limit) + i,
           data |-> ws[1 + recent_start(data_rows_count(ws), limit) + i]]]

\* Lines 105-114
add_row(ws, row, fault) ==
  IF fault \in {"worksheet", "append_row"}
    THEN [ok |-> FALSE, sheet |-> ws]
    ELSE [ok |-> TRUE, sheet |-> append_row(ws, row)]

\* Lines 116-125
update_row(ws, row_number, row, fault) ==
  IF fault \in {"worksheet", "update"}
    THEN [ok |-> FALSE, sheet |-> ws]
    ELSE [ok |-> TRUE, sheet |-> update_range(ws, row_number, row)]

\* Lines 127-136
delete_row(ws, row_number, fault) ==
  IF fault \in {"worksheet", "delete_rows"}
    THEN [ok |-> FALSE, sheet |-> ws]
    ELSE [ok |-> TRUE, sheet |-> delete_rows(ws, row_number)]

\* Lines 138-150
add_header(ws, header_name, fault) ==
  CHOOSE r \in
    {IF fault \in {"worksheet", "update_cell"}
       THEN [ok |-> FALSE, sheet |-> e.sheet]
       ELSE [ok |-> TRUE,
             sheet |-> update_cell(e.sheet, 1,
                                   Len(get_headers(e.sheet, fault)) + 1,
                                   header_name)] :
       e \in {ensure_mandatory_header_is_first(ws, fault)}} : TRUE

\* rename_header without its guard on the mandatory header
rename_header_unguarded(ws, old_name, new_name, fault) ==
  IF fault = "worksheet"
    THEN [ok |-> FALSE, sheet |-> ws, calls |-> <<"worksheet">>]
  ELSE IF fault = "find" \/ find_in_header(ws, old_name) = 0
    THEN [ok |-> FALSE, sheet |-> ws, calls |-> <<"worksheet", "find">>]
  ELSE IF fault = "update_cell"
    THEN [ok |-> FALSE, sheet |-> ws,
          calls |-> <<"worksheet", "find", "update_cell">>]
  ELSE [ok |-> TRUE,
        sheet |-> update_cell(ws, 1, find_in_header(ws, old_name), new_name),
        calls |-> <<"worksheet", "find", "update_cell">>]

\* Lines 152-167: the result, the worksheet and the gspread calls made
rename_header(ws, old_name, new_name, fault) ==
  IF lower(old_name) = MANDATORY_HEADER
    THEN [ok |-> FALSE, sheet |-> ws, calls |-> <<>>]
  ELSE IF fault = "worksheet"
    THEN [ok |-> FALSE, sheet |-> ws, calls |-> <<"worksheet">>]
  ELSE IF fault = "find" \/ find_in_header(ws, old_name) = 0
    THEN [ok |-> FALSE, sheet |-> ws, calls |-> <<"worksheet", "find">>]
  ELSE IF fault = "update_cell"
    THEN [ok |-> FALSE, sheet |-> ws,
          calls |-> <<"worksheet", "find", "update_cell">>]
  ELSE [ok |-> TRUE,
        sheet |-> update_cell(ws, 1, find_in_header(ws, old_name), new_name),
        calls |-> <<"worksheet", "find", "update_cell">>]

\* Lines 169-184
delete_header(ws, header_name, fault) ==
  IF lower(header_name) = MANDATORY_HEADER
    THEN [ok |-> FALSE, sheet |-> ws, calls |-> <<>>]
  ELSE IF fault = "worksheet"
    THEN [ok |-> FALSE, sheet |-> ws, calls |-> <<"worksheet">>]
  ELSE IF fault = "find" \/ find_in_header(ws, header_name) = 0
    THEN [ok |-> FALSE, sheet |-> ws, calls |-> <<"worksheet", "find">>]
  ELSE IF fault = "delete_columns"
    THEN [ok |-> FALSE, sheet |-> ws,
          calls |-> <<"worksheet", "find", "delete_columns">>]
  ELSE [ok |-> TRUE,
        sheet |-> delete_columns(ws, find_in_header(ws, header_name)),
        calls |-> <<"worksheet", "find", "delete_columns">>]

\* ------------------------------------------------------------------------
\* The header row under the service's header methods and the header menus
\* (gsheet_service.py lines 36-59 and 138-184, callback_handler.py lines
\* 106-153)
\* ------------------------------------------------------------------------

\* The most header cells a sheet of the model has
MaxCols == 3

\* Header names a user types or a caller passes
HeaderWords == {"Timestamp", "item"}

\* Worksheets as the bot finds them: empty, without the mandatory header,
\* with it in a later column, and with it in place
SheetsAtStart ==
  {<<>>,
   <<<<"item", "qty">>, <<"Laptop", "2">>>>,
   <<<<"item", "Timestamp">>>>,
   <<<<"timestamp", "item">>>>}

\* One inline button: its callback data and what its label shows
Button(data, shown) == [data |-> data, shown |-> shown]

\* callback_handler.py lines 111-118
rename_menu(hdrs) ==
  {Button("rename_header_" \o hdrs[i], hdrs[i]) :
     i \in {j \in 1..Len(hdrs) : is_other_header(hdrs[j])}}

\* callback_handler.py lines 141-148
delete_menu(hdrs) ==
  {Button("delete_header_" \o hdrs[i], hdrs[i]) :
     i \in {j \in 1..Len(hdrs) : is_other_header(hdrs[j])}}

NoKeyboards == [u \in Users |-> {}]

\* ------------------------------------------------------------------------
\* The bot: commands, menu buttons, callbacks and text messages of its users
\* on the one worksheet (command_handler.py, callback_handler.py,
\* message_handler.py)
\* ------------------------------------------------------------------------

\* The most entries ever written to the sheet in a run of the model
MaxRowId == 2

\* limit=5 of the recent-rows lists (callback_handler.py lines 184, 202, 233)
RECENT_LIMIT == 5

\* Texts the users send in input mode and as the new text of a row
BotTexts == {"Laptop", "1000000 hari yang lalu"}

\* Texts the users send as the name of a new or renamed header
BotHeaderWords == {"Timestamp"}

\* The worksheet when the bot starts: a new, empty sheet, or a sheet with
\* one entry
BotSheetsAtStart ==
  {<<>>,
   <<<<"timestamp", "item">>,
     <<"2026-11-02 10:00:00", "Meja">>>>}

\* The user who talks to the bot in a run
BotUsers == {7}

\* The main-menu button a run's flows start from: the run works through the
\* Input menu or through the Header menu
BotMenus == {"Input", "Header"}

cancel_keyboard == {Button("cancel_action", "")}

stop_keyboard == {Button("stop_input", "")}

\* command_handler.py lines 86-91
data_menu_keyboard ==
  {Button("data_add_start", ""), Button("data_view_recent", ""),
   Button("data_edit_start", ""), Button("data_delete_start", "")}

\* command_handler.py lines 112-116
header_menu_keyboard ==
  {Button("header_add", ""), Button("header_rename_start", ""),
   Button("header_delete_start", "")}

\* message_handler.py lines 61-62 (and 134-135): the row built from a text,
\* or the exception parse_transaction raises
entry_row(txt, hdrs, moment) ==
  CHOOSE r \in
    {[raised |-> p.raised,
      row_data |-> IF p.raised THEN <<>>
                   ELSE self_to_row_data(NLPParser, p.results, hdrs).row_data] :
       p \in {self_parse_transaction(NLPParser, txt, hdrs, moment)}} : TRUE

\* One call of a writing method of GSheetService, as a handler made it
ServiceCall(op, row_number, name, hdrs, ok) ==
  [op |-> op, row_number |-> row_number, name |-> name, headers |-> hdrs,
   ok |-> ok]

\* What a handler run leaves in call
HandlerRun(kind, handler, u, mode, ops) ==
  [kind |-> kind, handler |-> handler, user |-> u, mode |-> mode,
   data |-> "", ops |-> ops]

\* The run of a callback handler that reads cb.data
Pressed(run, data) == [run EXCEPT !.data = data]

\* user_state.get("mode") of the state get_user_state returns
mode_of(u) == get_user_state(states, state_file, u).state["mode"].s

payload_of(u, key) ==
  dict_get(get_user_state(states, state_file, u).state, key)

\* The history of the rows after ensure_mandatory_header_is_first or
\* add_header turned the worksheet ws into ws2: a header row inserted above
\* the first row holds no entry (0)
ids_after_header_fix(ids, ws, ws2) ==
  IF Len(ws2) > Len(ws) THEN <<0>> \o ids ELSE ids

\* The history of the rows after update_row: rows that come into being below
\* the last one hold no entry
ids_after_write(ids, ws2) ==
  [i \in 1..Len(ws2) |-> IF i <= Len(ids) THEN ids[i] ELSE 0]

\* The history of the rows after delete_row turned ws into ws2
ids_after_delete(ids, ws, ws2, row_number) ==
  IF Len(ws2) < Len(ws)
    THEN SubSeq(ids, 1, row_number - 1) \o SubSeq(ids, row_number + 1, Len(ids))
    ELSE ids

InitBot ==
  /\ ParserIdle
  /\ pc \in BotMenus
  /\ sheet \in BotSheetsAtStart
  /\ states = <<>>
  /\ state_file = [exists |-> FALSE, members |-> <<>>]
  /\ keyboards = NoKeyboards
  /\ call = [handler |-> "none"]
  /\ row_ids = [ids |-> [i \in 1..Len(sheet) |-> i - 1],
                next |-> IF sheet = <<>> THEN 1 ELSE Len(sheet),
                picked |-> [u \in Users |-> [row_number |-> 0, id |-> 0]]]

\* state_manager.py lines 58-69, as a handler awaits it
SetUserState(u, kwargs) ==
  \E r \in {update_user_state(states, state_file, u, kwargs)} :
    /\ states' = r.states
    /\ state_file' = r.file

\* state_manager.py lines 44-56 and 76-79, as a handler awaits them
ReadUserState(u) ==
  \E g \in {get_user_state(states, state_file, u)} :
    /\ states' = g.states
    /\ state_file' = g.file

mode_kwargs(mode) == [k \in {"mode"} |-> StrVal(mode)]

\* command_handler.py lines 43-50
StartCommand(u) ==
  /\ SetUserState(u, mode_kwargs(IDLE_MODE))
  /\ call' = HandlerRun("command", "start_command", u, mode_of(u), <<>>)
  /\ UNCHANGED <<parsing, sheet, keyboards, row_ids>>

\* command_handler.py lines 52-63 and 76: a reply and nothing else
HelpCommand(u) ==
  /\ call' = HandlerRun("menu", "help_command", u, "", <<>>)
  /\ UNCHANGED <<parsing, states, state_file, sheet, keyboards, row_ids>>

\* command_handler.py lines 78-100: a new message with the data menu
InputMenuStart(u, fault) ==
  /\ ReadUserState(u)
  /\ \E e \in {ensure_mandatory_header_is_first(sheet, fault)} :
       /\ sheet' = e.sheet
       /\ row_ids' = [row_ids EXCEPT
                        !.ids = ids_after_header_fix(@, sheet, e.sheet)]
  /\ keyboards' = [keyboards EXCEPT ![u] = data_menu_keyboard]
  /\ call' = HandlerRun("menu", "_handle_input_menu_start", u, mode_of(u),
                        <<>>)
  /\ UNCHANGED parsing

\* command_handler.py lines 102-121: a new message with the header menu
HeaderMenu(u, fault) ==
  /\ ReadUserState(u)
  /\ \E e \in {ensure_mandatory_header_is_first(sheet, fault)} :
       /\ sheet' = e.sheet
       /\ row_ids' = [row_ids EXCEPT
                        !.ids = ids_after_header_fix(@, sheet, e.sheet)]
  /\ keyboards' = [keyboards EXCEPT ![u] = header_menu_keyboard]
  /\ call' = HandlerRun("menu", "_handle_header_menu", u, mode_of(u), <<>>)
  /\ UNCHANGED parsing

\* A router that takes every text as new data, whatever the mode
text_route_all_input(mode) == "_handle_input_data"

\* message_handler.py lines 36-45: the handler a text is routed to
text_route(mode) ==
  CASE mode = INPUT_MODE -> "_handle_input_data"
    [] mode = AWAITING_HEADER_ADD -> "_handle_header_add_receive"
    [] mode = AWAITING_HEADER_RENAME_NEW_NAME ->
         "_handle_header_rename_receive"
    [] mode = AWAITING_UPDATED_ROW_TEXT -> "_handle_row_update_receive"
    [] OTHER -> "reply"

\* message_handler.py lines 29-45, the else branch: a reply
TextIdle(u) ==
  /\ text_route(mode_of(u)) = "reply"
  /\ ReadUserState(u)
  /\ call' = HandlerRun("text", "handle_text_message", u, mode_of(u), <<>>)
  /\ UNCHANGED <<parsing, sheet, keyboards, row_ids>>

\* message_handler.py lines 47-83: no headers (lines 56-58), an exception
\* of the parser (lines 82-83), or add_row and its reply
HandleInputData(u, txt, fault) ==
  /\ text_route(mode_of(u)) = "_handle_input_data"
  /\ row_ids.next <= MaxRowId
  /\ ReadUserState(u)
  /\ \E hdrs \in {get_headers(sheet, fault)} :
       IF hdrs = <<>>
         THEN /\ call' = HandlerRun("text", "_handle_input_data", u,
                                    INPUT_MODE, <<>>)
              /\ UNCHANGED <<sheet, keyboards, row_ids>>
         ELSE \E e \in {entry_row(strip(txt), hdrs, now)} :
                IF e.raised
                  THEN /\ call' = HandlerRun("text", "_handle_input_data", u,
                                             INPUT_MODE, <<>>)
                       /\ UNCHANGED <<sheet, keyboards, row_ids>>
                  ELSE \E r \in {add_row(sheet, e.row_data, fault)} :
                         /\ sheet' = r.sheet
                         /\ row_ids' =
                              IF r.ok
                                THEN [row_ids EXCEPT
                                        !.ids = Append(@, row_ids.next),
                                        !.next = @ + 1]
                                ELSE row_ids
                         /\ keyboards' =
                              IF r.ok
                                THEN [keyboards EXCEPT ![u] = stop_keyboard]
                                ELSE keyboards
                         /\ call' = HandlerRun(
                              "text", "_handle_input_data", u, INPUT_MODE,
                              <<ServiceCall("add_row", 0, "", hdrs, r.ok)>>)
  /\ UNCHANGED parsing

payload_kwargs(mode, key, value) ==
  [k \in {"mode", key} |-> IF k = "mode" THEN StrVal(mode) ELSE value]

\* A reset of the mode that leaves the payload in the state
reset_kwargs_mode_only(key) == mode_kwargs(IDLE_MODE)

\* message_handler.py lines 117 and 150: mode=IDLE_MODE and the payload=None
reset_kwargs(key) == payload_kwargs(IDLE_MODE, key, NoneVal)

\* message_handler.py lines 85-97
HandleHeaderAddReceive(u, txt, fault) ==
  /\ text_route(mode_of(u)) = "_handle_header_add_receive"
  /\ \E r \in {add_header(sheet, strip(txt), fault)} :
       /\ Len(row_values(r.sheet, 1)) <= MaxCols
       /\ sheet' = r.sheet
       /\ row_ids' = [row_ids EXCEPT
                        !.ids = ids_after_header_fix(@, sheet, r.sheet)]
       /\ call' = HandlerRun(
            "text", "_handle_header_add_receive", u, AWAITING_HEADER_ADD,
            <<ServiceCall("add_header", 0, strip(txt), <<>>, r.ok)>>)
  /\ SetUserState(u, mode_kwargs(IDLE_MODE))
  /\ UNCHANGED <<parsing, keyboards>>

\* message_handler.py lines 99-117
HandleHeaderRenameReceive(u, txt, fault) ==
  /\ text_route(mode_of(u)) = "_handle_header_rename_receive"
  /\ \E old_name \in {payload_of(u, "header_to_rename")} :
       IF ~Truthy(old_name)
         THEN /\ SetUserState(u, mode_kwargs(IDLE_MODE))
              /\ call' = HandlerRun("text", "_handle_header_rename_receive",
                                    u, AWAITING_HEADER_RENAME_NEW_NAME, <<>>)
              /\ UNCHANGED sheet
         ELSE /\ \E r \in {rename_header(sheet, old_name.s, strip(txt),
                                         fault)} :
                   /\ sheet' = r.sheet
                   /\ call' = HandlerRun(
                        "text", "_handle_header_rename_receive", u,
                        AWAITING_HEADER_RENAME_NEW_NAME,
                        <<ServiceCall("rename_header", 0, old_name.s, <<>>,
                                      r.ok)>>)
              /\ SetUserState(u, reset_kwargs("header_to_rename"))
  /\ UNCHANGED <<parsing, keyboards, row_ids>>

\* message_handler.py lines 119-150: the finally resets the state also when
\* the parser raises
HandleRowUpdateReceive(u, txt, fault) ==
  /\ text_route(mode_of(u)) = "_handle_row_update_receive"
  /\ \E row_number \in {payload_of(u, "row_to_edit")} :
       IF ~Truthy(row_number)
         THEN /\ SetUserState(u, mode_kwargs(IDLE_MODE))
              /\ call' = HandlerRun("text", "_handle_row_update_receive", u,
                                    AWAITING_UPDATED_ROW_TEXT, <<>>)
              /\ UNCHANGED <<sheet, row_ids>>
         ELSE /\ \E hdrs \in {get_headers(sheet, fault)} :
                 \E e \in {entry_row(strip(txt), hdrs, now)} :
                   IF e.raised
                     THEN /\ call' = HandlerRun(
                               "text", "_handle_row_update_receive", u,
                               AWAITING_UPDATED_ROW_TEXT, <<>>)
                          /\ UNCHANGED <<sheet, row_ids>>
                     ELSE \E r \in {update_row(sheet, row_number.num,
                                               e.row_data, fault)} :
                            /\ sheet' = r.sheet
                            /\ row_ids' = [row_ids EXCEPT
                                 !.ids = ids_after_write(@, r.sheet)]
                            /\ call' = HandlerRun(
                                 "text", "_handle_row_update_receive", u,
                                 AWAITING_UPDATED_ROW_TEXT,
                                 <<ServiceCall("update_row", row_number.num,
                                               "", hdrs, r.ok)>>)
              /\ SetUserState(u, reset_kwargs("row_to_edit"))
  /\ UNCHANGED <<parsing, keyboards>>

\* The button with this callback data is on the user's last keyboard
Offered(u, data) == \E b \in keyboards[u] : b.data = data

\* callback_handler.py lines 66-78
HandleStopInput(u) ==
  /\ Offered(u, "stop_input")
  /\ SetUserState(u, mode_kwargs(IDLE_MODE))
  /\ keyboards' = [keyboards EXCEPT ![u] = {}]
  /\ call' = HandlerRun("callback", "_handle_stop_input", u, mode_of(u), <<>>)
  /\ UNCHANGED <<parsing, sheet, row_ids>>

\* callback_handler.py lines 80-85
HandleCancelAction(u) ==
  /\ Offered(u, "cancel_action")
  /\ SetUserState(u, mode_kwargs(IDLE_MODE))
  /\ keyboards' = [keyboards EXCEPT ![u] = {}]
  /\ call' = HandlerRun("callback", "_handle_cancel_action", u, mode_of(u),
                        <<>>)
  /\ UNCHANGED <<parsing, sheet, row_ids>>

\* callback_handler.py lines 97-104
HandleHeaderAddStart(u) ==
  /\ Offered(u, "header_add")
  /\ SetUserState(u, mode_kwargs(AWAITING_HEADER_ADD))
  /\ keyboards' = [keyboards EXCEPT ![u] = cancel_keyboard]
  /\ call' = HandlerRun("callback", "_handle_header_add_start", u, mode_of(u),
                        <<>>)
  /\ UNCHANGED <<parsing, sheet, row_ids>>

\* callback_handler.py lines 106-120: an alert and no new keyboard when no
\* other header is left
ShowHeadersForRename(u, fault) ==
  /\ Offered(u, "header_rename_start")
  /\ ReadUserState(u)
  /\ keyboards' =
       IF rename_menu(get_headers(sheet, fault)) = {} THEN keyboards
       ELSE [keyboards EXCEPT
               ![u] = rename_menu(get_headers(sheet, fault)) \cup
                      cancel_keyboard]
  /\ call' = HandlerRun("callback", "_show_headers_for_rename", u, mode_of(u),
                        <<>>)
  /\ UNCHANGED <<parsing, sheet, row_ids>>

\* callback_handler.py lines 122-134
HandleHeaderRenameStart(u, b) ==
  /\ b \in keyboards[u]
  /\ startswith(b.data, "rename_header_")
  /\ SetUserState(u, payload_kwargs(
                       AWAITING_HEADER_RENAME_NEW_NAME, "header_to_rename",
                       StrVal(replace_all(b.data, "rename_header_"))))
  /\ keyboards' = [keyboards EXCEPT ![u] = cancel_keyboard]
  /\ call' = Pressed(HandlerRun("callback", "_handle_header_rename_start",
                                u, mode_of(u), <<>>), b.data)
  /\ UNCHANGED <<parsing, sheet, row_ids>>

\* callback_handler.py lines 136-153
ShowHeadersForDelete(u, fault) ==
  /\ Offered(u, "header_delete_start")
  /\ ReadUserState(u)
  /\ keyboards' =
       IF delete_menu(get_headers(sheet, fault)) = {} THEN keyboards
       ELSE [keyboards EXCEPT
               ![u] = delete_menu(get_headers(sheet, fault)) \cup
                      cancel_keyboard]
  /\ call' = HandlerRun("callback", "_show_headers_for_delete", u, mode_of(u),
                        <<>>)
  /\ UNCHANGED <<parsing, sheet, row_ids>>

\* callback_handler.py lines 155-167
HandleHeaderDelete(u, b, fault) ==
  /\ b \in keyboards[u]
  /\ startswith(b.data, "delete_header_")
  /\ ReadUserState(u)
  /\ \E r \in {delete_header(sheet, replace_all(b.data, "delete_header_"),
                             fault)} :
       /\ sheet' = r.sheet
       /\ call' = Pressed(HandlerRun(
            "callback", "_handle_header_delete", u, mode_of(u),
            <<ServiceCall("delete_header", 0,
                          replace_all(b.data, "delete_header_"), <<>>,
                          r.ok)>>), b.data)
  /\ keyboards' = [keyboards EXCEPT ![u] = {}]
  /\ UNCHANGED <<parsing, row_ids>>

\* callback_handler.py lines 170-178
HandleDataAddStart(u) ==
  /\ Offered(u, "data_add_start")
  /\ SetUserState(u, mode_kwargs(INPUT_MODE))
  /\ keyboards' = [keyboards EXCEPT ![u] = cancel_keyboard]
  /\ call' = HandlerRun("callback", "_handle_data_add_start", u, mode_of(u),
                        <<>>)
  /\ UNCHANGED <<parsing, sheet, row_ids>>

\* callback_handler.py lines 180-196: an alert when there is no row
HandleDataViewRecent(u, fault) ==
  /\ Offered(u, "data_view_recent")
  /\ ReadUserState(u)
  /\ keyboards' =
       IF get_recent_rows(sheet, RECENT_LIMIT, fault) = <<>> THEN keyboards
       ELSE [keyboards EXCEPT ![u] = cancel_keyboard]
  /\ call' = HandlerRun("callback", "_handle_data_view_recent", u, mode_of(u),
                        <<>>)
  /\ UNCHANGED <<parsing, sheet, row_ids>>

\* len(row['data']) of the rows worksheet.get_all_values() returns: every
\* row is filled up to the widest one
sheet_width(ws) ==
  IF ws = <<>> THEN 0
  ELSE CHOOSE w \in {Len(rtrim_cells(ws[i])) : i \in 1..Len(ws)} :
         \A i \in 1..Len(ws) : Len(rtrim_cells(ws[i])) <= w

\* A delete list whose buttons delete at once, without the prompt
row_buttons_unconfirmed(prefix, rows, ids) ==
  {Button((IF prefix = "delete_row_" THEN "confirm_delete_" ELSE prefix) \o
            NatToDigits(r.row_number),
          NatToDigits(ids[r.row_number])) :
     r \in {rows[i] : i \in 1..Len(rows)}} \cup cancel_keyboard

\* callback_handler.py lines 208-213 and 239-243: one button per recent row,
\* labelled with the row's number and its second cell, and Cancel; the
\* button's label shows the entry the row holds
row_buttons(prefix, rows, ids) ==
  {Button(prefix \o NatToDigits(r.row_number),
          NatToDigits(ids[r.row_number])) :
     r \in {rows[i] : i \in 1..Len(rows)}} \cup cancel_keyboard

\* The keyboard after a recent-rows list is asked for: unchanged when there
\* is no row (an alert) and when row['data'][1] raises IndexError, which the
\* router catches (main.py lines 71-75)
rows_keyboard(u, prefix, fault) ==
  IF get_recent_rows(sheet, RECENT_LIMIT, fault) = <<>> \/ sheet_width(sheet) < 2
    THEN keyboards
    ELSE [keyboards EXCEPT
            ![u] = row_buttons(prefix,
                               get_recent_rows(sheet, RECENT_LIMIT, fault),
                               row_ids.ids)]

\* callback_handler.py lines 198-214
ShowRowsForEditing(u, fault) ==
  /\ Offered(u, "data_edit_start")
  /\ ReadUserState(u)
  /\ keyboards' = rows_keyboard(u, "edit_row_", fault)
  /\ call' = HandlerRun("callback", "_show_rows_for_editing", u, mode_of(u),
                        <<>>)
  /\ UNCHANGED <<parsing, sheet, row_ids>>

\* A row number taken for an index into the data rows
selected_row_as_index(data) == int(replace_all(data, "edit_row_")) - 1

\* callback_handler.py line 218: int(cb.data.replace("edit_row_", ""))
selected_row(data) == int(replace_all(data, "edit_row_"))

\* callback_handler.py lines 216-227
HandleRowEditStart(u, b) ==
  /\ b \in keyboards[u]
  /\ startswith(b.data, "edit_row_")
  /\ SetUserState(u, payload_kwargs(
                       AWAITING_UPDATED_ROW_TEXT, "row_to_edit",
                       IntVal(selected_row(b.data))))
  /\ keyboards' = [keyboards EXCEPT ![u] = cancel_keyboard]
  /\ row_ids' = [row_ids EXCEPT
                   !.picked[u] =
                     [row_number |-> int(replace_all(b.data, "edit_row_")),
                      id |-> int(b.shown)]]
  /\ call' = Pressed(HandlerRun("callback", "_handle_row_edit_start", u,
                                mode_of(u), <<>>), b.data)
  /\ UNCHANGED <<parsing, sheet>>

\* callback_handler.py lines 229-245
ShowRowsForDeleting(u, fault) ==
  /\ Offered(u, "data_delete_start")
  /\ ReadUserState(u)
  /\ keyboards' = rows_keyboard(u, "delete_row_", fault)
  /\ call' = HandlerRun("callback", "_show_rows_for_deleting", u, mode_of(u),
                        <<>>)
  /\ UNCHANGED <<parsing, sheet, row_ids>>

\* callback_handler.py lines 247-254: the prompt carries the row number of
\* the button pressed
HandleRowDeleteConfirmation(u, b) ==
  /\ b \in keyboards[u]
  /\ startswith(b.data, "delete_row_")
  /\ keyboards' =
       [keyboards EXCEPT
          ![u] = {Button("confirm_delete_" \o
                           NatToDigits(int(replace_all(b.data,
                                                       "delete_row_"))),
                         b.shown),
                  Button("data_delete_start", "")}]
  /\ call' = Pressed(HandlerRun("callback",
                                "_handle_row_delete_confirmation", u,
                                mode_of(u), <<>>), b.data)
  /\ UNCHANGED <<parsing, states, state_file, sheet, row_ids>>

\* callback_handler.py lines 256-268
HandleRowDeleteConfirmed(u, b, fault) ==
  /\ b \in keyboards[u]
  /\ startswith(b.data, "confirm_delete_")
  /\ ReadUserState(u)
  /\ \E n \in {int(replace_all(b.data, "confirm_delete_"))} :
       \E r \in {delete_row(sheet, n, fault)} :
         /\ sheet' = r.sheet
         /\ row_ids' = [row_ids EXCEPT
                          !.ids = ids_after_delete(@, sheet, r.sheet, n)]
         /\ call' = Pressed(HandlerRun(
              "callback", "_handle_row_delete_confirmed", u, mode_of(u),
              <<ServiceCall("delete_row", n, "", <<>>, r.ok)>>), b.data)
  /\ keyboards' = [keyboards EXCEPT ![u] = {}]
  /\ UNCHANGED parsing

\* The gspread calls that fail while a handler of the bot runs
BotFaults == {"none", "worksheet"}

NextBot ==
  \E u \in BotUsers :
    \/ StartCommand(u)
    \/ HelpCommand(u)
    \/ pc = "Input" /\ \E fault \in BotFaults : InputMenuStart(u, fault)
    \/ pc = "Header" /\ \E fault \in BotFaults : HeaderMenu(u, fault)
    \/ TextIdle(u)
    \/ \E txt \in BotTexts, fault \in BotFaults :
         HandleInputData(u, txt, fault)
    \/ \E txt \in BotHeaderWords, fault \in BotFaults :
         HandleHeaderAddReceive(u, txt, fault)
    \/ \E txt \in BotHeaderWords, fault \in BotFaults :
         HandleHeaderRenameReceive(u, txt, fault)
    \/ \E txt \in BotTexts, fault \in BotFaults :
         HandleRowUpdateReceive(u, txt, fault)
    \/ HandleStopInput(u)
    \/ HandleCancelAction(u)
    \/ HandleHeaderAddStart(u)
    \/ \E fault \in BotFaults : ShowHeadersForRename(u, fault)
    \/ \E b \in keyboards[u] : HandleHeaderRenameStart(u, b)
    \/ \E fault \in BotFaults : ShowHeadersForDelete(u, fault)
    \/ \E b \in keyboards[u], fault \in BotFaults :
         HandleHeaderDelete(u, b, fault)
    \/ HandleDataAddStart(u)
    \/ \E fault \in BotFaults : HandleDataViewRecent(u, fault)
    \/ \E fault \in BotFaults : ShowRowsForEditing(u, fault)
    \/ \E b \in keyboards[u] : HandleRowEditStart(u, b)
    \/ \E fault \in BotFaults : ShowRowsForDeleting(u, fault)
    \/ \E b \in keyboards[u] : HandleRowDeleteConfirmation(u, b)
    \/ \E b \in keyboards[u], fault \in BotFaults :
         HandleRowDeleteConfirmed(u, b, fault)

SpecBot == InitBot /\ [][NextBot]_vars

\* ------------------------------------------------------------------------
\* The header row under direct calls of the service's header methods and
\* under the header menus
\* ------------------------------------------------------------------------

\* The most rows the worksheet holds in a run of the header methods
MaxHeaderRows == 2

InitSheet ==
  /\ ParserIdle
  /\ pc = "sheet"
  /\ sheet \in SheetsAtStart
  /\ states = <<>>
  /\ state_file = [exists |-> FALSE, members |-> <<>>]
  /\ keyboards = NoKeyboards
  /\ call = [handler |-> "none"]
  /\ row_ids = [NoRowIds EXCEPT !.ids = [i \in 1..Len(sheet) |-> 0]]

\* gsheet_service.py lines 36-59
EnsureMandatoryHeader(fault) ==
  /\ \E e \in {ensure_mandatory_header_is_first(sheet, fault)} :
       /\ sheet' = e.sheet
       /\ call' = [handler |-> "ensure_mandatory_header_is_first",
                   error |-> e.error]
  /\ UNCHANGED <<parsing, row_ids, states, state_file, keyboards>>

\* gsheet_service.py lines 138-150
AddHeader(name, fault) ==
  /\ Len(row_values(sheet, 1)) < MaxCols
  /\ \E r \in {add_header(sheet, name, fault)} :
       /\ Len(r.sheet) <= MaxHeaderRows
       /\ sheet' = r.sheet
       /\ call' = [handler |-> "add_header", name |-> name, ok |-> r.ok]
  /\ UNCHANGED <<parsing, row_ids, states, state_file, keyboards>>

\* gsheet_service.py lines 152-167
RenameHeader(old_name, new_name, fault) ==
  /\ \E r \in {rename_header(sheet, old_name, new_name, fault)} :
       /\ sheet' = r.sheet
       /\ call' = [handler |-> "rename_header", name |-> old_name,
                   ok |-> r.ok, calls |-> r.calls]
  /\ UNCHANGED <<parsing, row_ids, states, state_file, keyboards>>

\* gsheet_service.py lines 169-184
DeleteHeader(name, fault) ==
  /\ \E r \in {delete_header(sheet, name, fault)} :
       /\ sheet' = r.sheet
       /\ call' = [handler |-> "delete_header", name |-> name,
                   ok |-> r.ok, calls |-> r.calls]
  /\ UNCHANGED <<parsing, row_ids, states, state_file, keyboards>>

NextSheet ==
  \/ \E fault \in {"none", "worksheet", "delete_rows"} :
       EnsureMandatoryHeader(fault)
  \/ \E name \in HeaderWords, fault \in {"none", "update_cell"} :
       AddHeader(name, fault)
  \/ \E old_name \in HeaderWords \cup {MANDATORY_HEADER},
        new_name \in HeaderWords,
        fault \in {"none", "find", "update_cell"} :
       RenameHeader(old_name, new_name, fault)
  \/ \E name \in HeaderWords \cup {MANDATORY_HEADER},
        fault \in {"none", "worksheet", "delete_columns"} :
       DeleteHeader(name, fault)
  \/ \E u \in Users : HeaderMenu(u, "none")
  \/ \E u \in Users, fault \in {"none", "row_values"} :
       ShowHeadersForRename(u, fault)
  \/ \E u \in Users, fault \in {"none", "row_values"} :
       ShowHeadersForDelete(u, fault)

SpecSheet == InitSheet /\ [][NextSheet]_vars

\* ------------------------------------------------------------------------
\* The recent rows of a worksheet that grows and shrinks under the service's
\* row methods (gsheet_service.py lines 81-136)
\* ------------------------------------------------------------------------

\* The most rows the worksheet holds in a run of the model, the header row
\* included
MaxRows == 7

\* The limits get_recent_rows is called with: the callers' limit=5 and
\* smaller positive ones
RecentLimits == {1, 2, RECENT_LIMIT}

\* The rows add_row appends
RecentRows == {<<"2026-11-02 10:00:00", "Meja">>, <<"", "Laptop">>}

InitRecent ==
  /\ ParserIdle
  /\ pc = "recent"
  /\ sheet \in {<<>>, <<<<"timestamp", "item">>>>}
  /\ states = <<>>
  /\ state_file = [exists |-> FALSE, members |-> <<>>]
  /\ keyboards = NoKeyboards
  /\ call = [handler |-> "none"]
  /\ row_ids = NoRowIds

\* gsheet_service.py lines 81-103
GetRecentRows(limit, fault) ==
  /\ call' = [handler |-> "get_recent_rows", limit |-> limit,
              fault |-> fault,
              rows |-> get_recent_rows(sheet, limit, fault)]
  /\ UNCHANGED <<parsing, sheet, row_ids, states, state_file, keyboards>>

\* gsheet_service.py lines 105-114
AddRow(row, fault) ==
  /\ Len(sheet) < MaxRows
  /\ \E r \in {add_row(sheet, row, fault)} :
       /\ sheet' = r.sheet
       /\ call' = [handler |-> "add_row", ok |-> r.ok]
  /\ UNCHANGED <<parsing, row_ids, states, state_file, keyboards>>

\* gsheet_service.py lines 127-136
DeleteRow(row_number, fault) ==
  /\ \E r \in {delete_row(sheet, row_number, fault)} :
       /\ sheet' = r.sheet
       /\ call' = [handler |-> "delete_row", ok |-> r.ok]
  /\ UNCHANGED <<parsing, row_ids, states, state_file, keyboards>>

NextRecent ==
  \/ \E limit \in RecentLimits, fault \in {"none", "get_all_values"} :
       GetRecentRows(limit, fault)
  \/ \E row \in RecentRows, fault \in {"none", "append_row"} :
       AddRow(row, fault)
  \/ \E row_number \in 2..MaxRows, fault \in {"none", "delete_rows"} :
       DeleteRow(row_number, fault)

SpecRecent == InitRecent /\ [][NextRecent]_vars

\* ------------------------------------------------------------------------
\* The header methods on a sheet whose first header is the mandatory one,
\* with reads and writes of the sheet that fail (gsheet_service.py lines
\* 138-184)
\* ------------------------------------------------------------------------

\* A header row that starts with the mandatory header, in either case
MandatoryFirstSheets ==
  {<<<<"timestamp", "item">>>>, <<<<"Timestamp">>>>}

InitHeaders ==
  /\ ParserIdle
  /\ pc = "headers"
  /\ sheet \in MandatoryFirstSheets
  /\ states = <<>>
  /\ state_file = [exists |-> FALSE, members |-> <<>>]
  /\ keyboards = NoKeyboards
  /\ call = [handler |-> "none"]
  /\ row_ids = NoRowIds

NextHeaders ==
  \/ \E name \in HeaderWords \cup {MANDATORY_HEADER},
        fault \in {"none", "row_values", "update_cell"} :
       AddHeader(name, fault)
  \/ \E old_name \in HeaderWords \cup {MANDATORY_HEADER},
        new_name \in HeaderWords \cup {MANDATORY_HEADER},
        fault \in {"none", "find", "update_cell"} :
       RenameHeader(old_name, new_name, fault)
  \/ \E name \in HeaderWords \cup {MANDATORY_HEADER},
        fault \in {"none", "worksheet", "delete_columns"} :
       DeleteHeader(name, fault)

SpecHeaders == InitHeaders /\ [][NextHeaders]_vars

\* ------------------------------------------------------------------------
\* add_header called by two handlers at a time (gsheet_service.py lines
\* 138-150). Every gspread call is awaited in an executor, so another
\* handler's call can run between any two of them.
\* ------------------------------------------------------------------------

\* The add_header calls in flight
Tasks == {1, 2}

\* The names the two calls add
AddNames == {"qty", "note"}

NoTask ==
  [pc |-> "idle", name |-> "", headers |-> <<>>, fault |-> "none",
   ok |-> FALSE]

InitAdd ==
  /\ ParserIdle
  /\ pc = "add"
  /\ sheet \in SheetsAtStart
  /\ states = <<>>
  /\ state_file = [exists |-> FALSE, members |-> <<>>]
  /\ keyboards = NoKeyboards
  /\ call = [handler |-> "add_header", tasks |-> [t \in Tasks |-> NoTask]]
  /\ row_ids = NoRowIds

\* The step of one call: its record and the sheet afterwards
TaskStep(t, task, ws) ==
  /\ call' = [call EXCEPT !.tasks[t] = task]
  /\ sheet' = ws
  /\ UNCHANGED <<parsing, row_ids, states, state_file, keyboards>>

\* message_handler.py lines 85-97: the handler calls add_header
AddHeaderCalled(t, name, fault) ==
  /\ call.tasks[t].pc = "idle"
  /\ TaskStep(t, [NoTask EXCEPT !.pc = "ensure_read", !.name = name,
                                !.fault = fault], sheet)

\* Lines 43-46: ensure_mandatory_header_is_first reads the header row
EnsureRead(t) ==
  /\ call.tasks[t].pc = "ensure_read"
  /\ \E hdrs \in {get_headers(sheet, "none")} :
       TaskStep(t, [call.tasks[t] EXCEPT
                      !.headers = hdrs,
                      !.pc = IF hdrs = <<>> THEN "ensure_insert"
                             ELSE IF lower(hdrs[1]) # MANDATORY_HEADER
                               THEN "ensure_delete"
                             ELSE "read"],
                sheet)

\* Lines 53-54
EnsureDelete(t) ==
  /\ call.tasks[t].pc = "ensure_delete"
  /\ TaskStep(t, [call.tasks[t] EXCEPT !.pc = "ensure_insert"],
              delete_rows(sheet, 1))

\* Line 55
EnsureInsert(t) ==
  /\ call.tasks[t].pc = "ensure_insert"
  /\ TaskStep(t, [call.tasks[t] EXCEPT !.pc = "read"],
              insert_row(sheet, new_headers(call.tasks[t].headers), 1))

\* Lines 142-144
ReadHeaders(t) ==
  /\ call.tasks[t].pc = "read"
  /\ TaskStep(t, [call.tasks[t] EXCEPT !.pc = "write",
                                       !.headers = get_headers(sheet, "none")],
              sheet)

\* Lines 144-150
WriteHeader(t) ==
  /\ call.tasks[t].pc = "write"
  /\ IF call.tasks[t].fault = "update_cell"
       THEN TaskStep(t, [call.tasks[t] EXCEPT !.pc = "done", !.ok = FALSE],
                     sheet)
       ELSE TaskStep(t, [call.tasks[t] EXCEPT !.pc = "done", !.ok = TRUE],
                     update_cell(sheet, 1, Len(call.tasks[t].headers) + 1,
                                 call.tasks[t].name))

NextAdd ==
  \E t \in Tasks :
    \/ \E name \in AddNames, fault \in {"none", "update_cell"} :
         AddHeaderCalled(t, name, fault)
    \/ EnsureRead(t)
    \/ EnsureDelete(t)
    \/ EnsureInsert(t)
    \/ ReadHeaders(t)
    \/ WriteHeader(t)

SpecAdd == InitAdd /\ [][NextAdd]_vars

\* ------------------------------------------------------------------------
\* One message in input mode over header rows with repeated names: the
\* handler parses the text and projects the record onto the header row
\* (message_handler.py lines 61-62)
\* ------------------------------------------------------------------------

\* Header cells of rows that name a column twice, in the same or in another
\* spelling
RepeatedHeaderNames == {"item", "Qty", "qty", "Harga"}

RepeatedHeaderLists ==
  UNION {[1..n -> RepeatedHeaderNames] : n \in 1..MaxHeaders}

\* Messages with a quantity, with a price, with neither
ProjectMessages ==
  {<<"Laptop", "2 unit">>, <<"Laptop", "harga 10000">>, <<"Laptop">>}

InitProject ==
  /\ words \in ProjectMessages
  /\ text = strip(Join(words))
  /\ headers \in RepeatedHeaderLists
  /\ now \in Clock
  /\ pc = "input"
  /\ Locals
  /\ BotOff

\* message_handler.py line 61; an exception ends the handler (lines 82-83)
ParseTransaction ==
  /\ pc = "input"
  /\ \E p \in {self_parse_transaction(parser, text, headers, now)} :
       /\ active_entities' = p.active_entities
       /\ results' = p.results
       /\ pc' = IF p.raised THEN "failed" ELSE "parsed"
  /\ UNCHANGED <<inputs, bot, shared, clean_text, quantity_match, price_match,
                 price_str, price_data, row_data>>

NextProject ==
  \/ ParseTransaction
  \/ ToRowData

SpecProject == InitProject /\ [][NextProject]_vars

\* ------------------------------------------------------------------------
\* Properties
\* ------------------------------------------------------------------------

\* Numeric equality of two Python numbers (2 == 2.0)
NumEq(a, b) == a.num * b.den = b.num * a.den

Returned == pc \in {"parsed", "done"}

Has(k) == k \in DOMAIN results

\* Entities whose active-map entry is the header at position i
ResolvedAt(i) ==
  {e \in DOMAIN active_entities : active_entities[e] = headers[i]}

\* C1: the projected row has exactly len(headers) cells, and every position
\* whose header resolves to no entity, or whose entity has no value in the
\* record, holds the empty string.
C1_RowLength ==
  pc = "done" =>
    /\ DOMAIN row_data = 1..Len(headers)
    /\ Len(row_data) = Len(headers)
    /\ \A i \in 1..Len(headers) :
         (\A e \in ResolvedAt(i) : e \notin DOMAIN results)
           => row_data[i] = ""

C1_Witness ==
  /\ pc = "done"
  /\ \E i \in 1..Len(headers) : ResolvedAt(i) = {}
  /\ \E i \in 1..Len(headers) :
       ResolvedAt(i) # {} /\ \A e \in ResolvedAt(i) : e \notin DOMAIN results
  /\ \E i \in 1..Len(headers) : row_data[i] # ""

\* C2: whenever quantity and unit_price are extracted, total_price is not,
\* and the schema has a total_price column, the record's total_price is
\* quantity * unit_price; with headers timestamp, item, qty, unit_price,
\* total_price, quantity 2 and unit price 10000 the total is 20000.
C2_ReconciliationFires ==
  /\ (Returned /\ quantity_match # None /\ "unit_price" \in DOMAIN price_data
        /\ "total_price" \notin DOMAIN price_data
        /\ "total_price" \in DOMAIN active_entities)
       => /\ Has("total_price")
          /\ NumEq(results["total_price"],
                   FloatMul(results["quantity"], results["unit_price"]))
  /\ (Returned /\ text = "2 unit harga 10000"
        /\ headers = <<"timestamp", "item", "qty", "unit_price",
                       "total_price">>)
       => /\ Has("total_price")
          /\ NumEq(results["total_price"], IntVal(20000))

\* C3: the back-fill never adds total_price when the active entity map has
\* no total_price entry and never adds unit_price when the map has no
\* unit_price entry: such a key is in the record only if the price stage
\* extracted it.
C3_SchemaGated ==
  Returned =>
    /\ ("total_price" \notin DOMAIN active_entities /\ Has("total_price"))
         => "total_price" \in DOMAIN price_data
    /\ ("unit_price" \notin DOMAIN active_entities /\ Has("unit_price"))
         => "unit_price" \in DOMAIN price_data
    /\ (headers = <<"timestamp", "item", "qty", "unit_price">>
          /\ text = "2 unit harga 10000")
         => ~Has("total_price")

C3_Witness ==
  /\ Returned
  /\ headers = <<"timestamp", "item", "qty", "unit_price">>
  /\ text = "2 unit harga 10000"
  /\ NumEq(results["quantity"], IntVal(2))
  /\ NumEq(results["unit_price"], IntVal(10000))
  /\ "total_price" \notin DOMAIN active_entities
  /\ ~Has("total_price")

\* C4 is about the second back-fill branch (lines 149-151): quantity and
\* total_price present, unit_price absent and a unit_price column in the
\* schema. This is the state in which that branch is entered.
C4_DivisionCase ==
  /\ pc = "reconcile"
  /\ Truthy(dict_get(results, "total_price"))
  /\ ~Truthy(dict_get(results, "unit_price"))

\* C5: whenever the returned record contains quantity, unit_price and
\* total_price together, total_price equals quantity * unit_price.
C5_Consistent ==
  (Returned /\ Has("quantity") /\ Has("unit_price") /\ Has("total_price"))
    => NumEq(results["total_price"],
             FloatMul(results["quantity"], results["unit_price"]))

\* C6: parse_transaction never raises: for every text and header list it
\* returns a record.
C6_NeverRaises == pc # "raised"

\* C8: when the price pattern matched but the token cannot be parsed, the
\* price stage sets no price field, raises nothing and removes the matched
\* span from the working text.
C8_UnparseableStripped ==
  [][(pc = "price" /\ price_match # None
        /\ _parse_price_part(price_match.group1) = EmptyDict)
       => /\ pc' = "type"
          /\ results' = results
          /\ Len(clean_text') = Len(clean_text) - Len(price_match.group0)
          /\ \E i \in 0..Len(clean_text') :
               clean_text = Slice(clean_text', 1, i) \o price_match.group0
                              \o DropFirst(clean_text', i)]_vars

\* C9: the price stage matches against the text from which the quantity
\* span has been stripped, so 'harga 2 unit' yields quantity 2 and no price,
\* and a span matched by a stage never remains in item_name.
C9_StagesOnRemainder ==
  /\ pc = "price" => price_match = price_search(clean_text)
  /\ (Returned /\ text = "harga 2 unit")
       => /\ Has("quantity") /\ NumEq(results["quantity"], IntVal(2))
          /\ ~Has("unit_price") /\ ~Has("total_price")
          /\ results["item_name"] = StrVal("")

PrefixOf(w) == CHOOSE p \in PricePrefixes : p.s = w

SuffixOf(w) == CHOOSE m \in PriceSuffixes : m.s = w

SlashOf(w) == CHOOSE n \in PriceSlashes : n.s = w

\* C7: the amount of a price token is its numeric prefix times the magnitude
\* multiplier; with a '/N' suffix, N > 1, the result is total_price = amount
\* and unit_price = amount / N; with no '/N' or N = 1 it is unit_price =
\* amount only.
C7_PriceClassification ==
  pc = "price_return" =>
    /\ PrefixOf(words[1]).ok =>
         LET n == SlashOf(words[3]).n
             num == PrefixOf(words[1]).num * SuffixOf(words[2]).mult
             den == PrefixOf(words[1]).den
         IN  /\ n > 1 =>
                  /\ DOMAIN price_data = {"total_price", "unit_price"}
                  /\ price_data["total_price"] = FloatVal(num, den)
                  /\ price_data["unit_price"] = FloatVal(num, den * n)
             /\ n \in {-1, 1} =>
                  /\ DOMAIN price_data = {"unit_price"}
                  /\ price_data["unit_price"] = FloatVal(num, den)
    /\ price_str = "3.6jt" =>
         price_data = [unit_price |-> FloatVal(3600000, 1)]
    /\ price_str = "500rb" =>
         price_data = [unit_price |-> FloatVal(500000, 1)]
    /\ price_str = "3.6jt/2" =>
         price_data = [total_price |-> FloatVal(3600000, 1),
                       unit_price |-> FloatVal(1800000, 1)]

C7_Witness ==
  /\ pc = "price_return"
  /\ price_str = "3.6jt/2"
  /\ DOMAIN price_data = {"total_price", "unit_price"}

\* Days stated by a phrase 'N hari yang lalu', -1 for any other phrase
PhraseDays(w) ==
  CASE w = "3 hari yang lalu" -> 3
    [] w = "1000000 hari yang lalu" -> 1000000
    [] OTHER -> -1

\* Days the date phrases of the message put the transaction in the past:
\* the first 'N hari yang lalu' phrase, else 'kemarin', else today.
StatedDaysAgo ==
  LET I == {i \in 1..Len(words) : PhraseDays(words[i]) >= 0}
  IN  IF I # {} THEN PhraseDays(words[Min(I)])
      ELSE IF \E i \in 1..Len(words) : words[i] = "kemarin" THEN 1
      ELSE 0

\* C10: 'N hari yang lalu' wins over 'kemarin', which wins over 'hari ini';
\* with no date phrase the timestamp is the current moment; the timestamp
\* key is set in every record.
C10_DatePriority ==
  /\ pc \in {"search", "quantity", "price", "type", "item", "reconcile",
             "parsed", "done"} =>
       /\ Has("timestamp")
       /\ results["timestamp"] =
            StrVal(strftime([ordinal |-> now.ordinal - StatedDaysAgo,
                             second |-> now.second]))
  /\ (Returned /\ text = "3 hari yang lalu kemarin"
        /\ now = [ordinal |-> 739923, second |-> 82887])
       => results["timestamp"] = StrVal("2026-10-31 23:01:27")

C10_Witness ==
  /\ pc = "done"
  /\ words = <<"3 hari yang lalu", "kemarin">>
  /\ results["timestamp"] =
       StrVal(strftime([ordinal |-> now.ordinal - 3, second |-> now.second]))
  /\ results["timestamp"] # StrVal(strftime(now))

\* Category of a phrase that is a transaction-type trigger word, "" for any
\* other phrase
PhraseCategory(w) ==
  CASE w = "terjual" -> "sold"
    [] w = "beli" -> "bought"
    [] w = "biaya" -> "expense"
    [] OTHER -> ""

WordCategories == {PhraseCategory(words[i]) : i \in 1..Len(words)}

\* C11: the categories are tried in the order sold, bought, expense: when
\* trigger words of several categories occur in the message the first
\* category in that order is the transaction_type, wherever the words stand;
\* when no trigger word occurs the record has no transaction_type key.
C11_TypeOrder ==
  Returned =>
    /\ "sold" \in WordCategories =>
         dict_get(results, "transaction_type") = StrVal("sold")
    /\ ("sold" \notin WordCategories /\ "bought" \in WordCategories) =>
         dict_get(results, "transaction_type") = StrVal("bought")
    /\ (WordCategories \cap {"sold", "bought"} = {}
          /\ "expense" \in WordCategories) =>
         dict_get(results, "transaction_type") = StrVal("expense")
    /\ WordCategories \cap {"sold", "bought", "expense"} = {} =>
         ~Has("transaction_type")

C11_Witness ==
  /\ Returned
  /\ words = <<"beli", "terjual">>
  /\ results["transaction_type"] = StrVal("sold")

\* Kind of token a phrase is: a date phrase, a quantity token, a token the
\* price pattern matches, a transaction-type word, or "" for anything else
PhraseKind(w) ==
  CASE w \in {"3 hari yang lalu", "1000000 hari yang lalu", "kemarin",
              "hari ini"} -> "date"
    [] w \in {"2 unit", "0 unit"} -> "quantity"
    [] w \in {"harga 10000", "harga 3.6jt/3", "harga 1.500.000"} -> "price"
    [] PhraseCategory(w) # "" -> "type"
    [] OTHER -> ""

OnlyTokens == \A i \in 1..Len(words) : PhraseKind(words[i]) # ""

CountKind(k) == Cardinality({i \in 1..Len(words) : PhraseKind(words[i]) = k})

\* C12 as stated: a text made only of date, quantity, price and
\* transaction-type tokens, in any order, yields item_name == "".
C12_OnlyTokensEmptyName ==
  (Returned /\ OnlyTokens) => results["item_name"] = StrVal("")

\* C12 amended: a text made only of date phrases, transaction-type words, at
\* most one quantity token and at most one price token, in any order, yields
\* item_name == "" (the quantity and price stages strip their first match
\* only).
C12_SingleTokensEmptyName ==
  (Returned /\ OnlyTokens /\ CountKind("quantity") <= 1
     /\ CountKind("price") <= 1)
    => results["item_name"] = StrVal("")

C12_Witness ==
  /\ Returned
  /\ words = <<"harga 10000", "2 unit">>
  /\ results["item_name"] = StrVal("")

\* The lower-cased, trimmed text of a header cell of HeaderNames
NormOf(h) == (CHOOSE n \in HeaderNames : n.s = h).norm

\* Indexes of the synonyms of entity e that some header of the row equals
\* after lower-casing and trimming
MatchedSynonyms(e) ==
  {k \in 1..Len(entity_map[e]) :
     \E i \in 1..Len(headers) : NormOf(headers[i]) = entity_map[e][k]}

\* C13: every value of the active entity map is one of the headers, and an
\* entity key is in the map if and only if one of its synonyms equals some
\* header after lower-casing and trimming; headers that match no synonym
\* are ignored.
C13_ActiveMap ==
  pc = "resolve_return" =>
    /\ DOMAIN active_entities \subseteq DOMAIN entity_map
    /\ \A e \in DOMAIN active_entities :
         \E i \in 1..Len(headers) : headers[i] = active_entities[e]
    /\ \A e \in DOMAIN entity_map :
         e \in DOMAIN active_entities <=> MatchedSynonyms(e) # {}

C13_Witness ==
  /\ pc = "resolve_return"
  /\ headers = <<"Catatan", " Jumlah ", "item_name">>
  /\ active_entities = [quantity |-> " Jumlah "]

\* C14: when several headers satisfy one entity through different synonyms,
\* the mapped header is the one matching the earliest-declared synonym, in
\* whichever order the headers stand, and the mapped value is the header as
\* written in the row (original case, untrimmed).
C14_SynonymPriority ==
  pc = "resolve_return" =>
    /\ \A e \in DOMAIN active_entities :
         /\ NormOf(active_entities[e]) = entity_map[e][Min(MatchedSynonyms(e))]
         /\ \E i \in 1..Len(headers) : headers[i] = active_entities[e]
    /\ headers \in {<<"Harga", " TOTAL">>, <<" TOTAL", "Harga">>} =>
         active_entities = [total_price |-> " TOTAL"]

C14_Witness ==
  /\ pc = "resolve_return"
  /\ headers = <<"Harga", " TOTAL">>
  /\ active_entities = [total_price |-> " TOTAL"]

\* C16: the projected row holds str(value) at every position whose header
\* resolves to an entity that is in the record with a non-null value, the
\* numbers 0 and 0.0 included (a quantity of 0 is written "0"), and "" at
\* every other position.
C16_StrOfValue ==
  /\ pc = "done" =>
       \A i \in 1..Len(headers) :
         IF \E e \in ResolvedAt(i) : e \in DOMAIN results /\ results[e] # NoneVal
         THEN \A e \in ResolvedAt(i) :
                e \in DOMAIN results => row_data[i] = str(results[e])
         ELSE row_data[i] = ""
  /\ (pc = "done" /\ text = "0 unit"
        /\ headers = <<"timestamp", "item", "qty", "unit_price">>)
       => row_data[3] = "0"

\* C17: the mandatory column ('timestamp', in any case) is resolved like any
\* other entity, so the projected row carries the record's timestamp value
\* at the position of that column.
C17_TimestampCell ==
  pc = "done" =>
    \A i \in 1..Len(headers) :
      lower(headers[i]) = MANDATORY_HEADER =>
        /\ "timestamp" \in DOMAIN active_entities
        /\ row_data[i] = results["timestamp"].s

\* C18: 'Laptop terjual 2 unit harga 3.6jt' with the headers timestamp,
\* item_name, quantity, unit_price, total_price, transaction_type gives a
\* record with quantity 2, unit_price 3600000, total_price 7200000,
\* transaction_type 'sold', item_name 'Laptop', and the projected row is
\* [<timestamp>, 'Laptop', '2', '3600000', '7200000', 'sold'].
C18_EndToEnd ==
  (Returned /\ text = "Laptop terjual 2 unit harga 3.6jt"
     /\ headers = <<"timestamp", "item_name", "quantity", "unit_price",
                    "total_price", "transaction_type">>)
    => /\ dict_get(results, "quantity") = IntVal(2)
       /\ Has("unit_price") /\ NumEq(results["unit_price"], IntVal(3600000))
       /\ Has("total_price") /\ NumEq(results["total_price"], IntVal(7200000))
       /\ dict_get(results, "transaction_type") = StrVal("sold")
       /\ dict_get(results, "item_name") = StrVal("Laptop")
       /\ pc = "done" =>
            row_data = <<results["timestamp"].s, "Laptop", "2", "3600000",
                         "7200000", "sold">>

\* C19: the fields extracted are computed from the live headers: quantity,
\* unit_price, total_price, transaction_type or item_name is put into the
\* record only when the header row resolves a column for that entity.
C19_ExtractedOnlyIfResolved ==
  Returned =>
    \A k \in {"quantity", "unit_price", "total_price", "transaction_type",
              "item_name"} :
      Has(k) => k \in DOMAIN active_entities

\* C15: two calls of _get_active_entities on the same headers, with other
\* calls on the parser in between, return identical maps, and a call changes
\* neither the header list nor the synonym table.
C15_ResolutionIdempotent ==
  pc = "sessions" =>
    /\ parser.entity_map = entity_map
    /\ \A s \in Sessions :
         /\ sessions[s].headers = sessions[s].sheet_headers
         /\ sessions[s].pc = "done" =>
              sessions[s].row_active = sessions[s].active_entities

C15_Witness ==
  /\ pc = "sessions"
  /\ \A s \in Sessions : sessions[s].pc = "done"
  /\ sessions["chat_a"].row_active = [quantity |-> "quantity"]
  /\ sessions["chat_b"].row_active = [item_name |-> "Nama",
                                      quantity |-> "Jumlah",
                                      total_price |-> "Harga"]

\* What the call of session s returns when it runs alone on a fresh parser
AloneParse(s) ==
  self_parse_transaction(NLPParser, sessions[s].text,
                         sessions[s].sheet_headers, now)

AloneRow(s, parsed_data) ==
  self_to_row_data(NLPParser, parsed_data, sessions[s].sheet_headers).row_data

\* C20: parse_transaction and to_row_data change neither the synonym table
\* of the shared parser nor their headers / parsed_data arguments, so in
\* every interleaving of the calls of different chats each call returns
\* what it returns when run alone with the same clock reading.
C20_NoInterference ==
  pc = "sessions" =>
    /\ parser = NLPParser
    /\ \A s \in Sessions :
         /\ sessions[s].headers = sessions[s].sheet_headers
         /\ sessions[s].pc # "parse" =>
              \A alone \in {AloneParse(s)} :
                /\ sessions[s].pc = "failed" => alone.raised
                /\ sessions[s].pc \in {"project", "done"} =>
                     /\ ~alone.raised
                     /\ sessions[s].parsed_data = alone.results
                /\ sessions[s].pc = "done" =>
                     sessions[s].row_data = AloneRow(s, alone.results)

C20_Witness ==
  /\ pc = "sessions"
  /\ sessions["chat_a"].pc = "done"
  /\ sessions["chat_b"].pc = "project"
  /\ sessions["chat_a"].sheet_headers # sessions["chat_b"].sheet_headers
  /\ sessions["chat_a"].active_entities # sessions["chat_b"].active_entities
  /\ sessions["chat_a"].row_data # <<>>


\* C24: user state is persisted across restarts: the state a user had before
\* the bot stopped is what get_user_state returns for that user once the new
\* StateManager has loaded the file, not a newly created default state.
C24_PersistedAcrossRestart ==
  [][call'.handler = "start" =>
       \A u \in Users :
         od_has(states, user_key(u)) =>
           get_user_state(states', state_file', u).state =
             od_get(states, user_key(u))]_vars


\* The header a rename or delete button of the header menus stands for
ButtonHeader(b) ==
  IF startswith(b.data, "rename_header_")
    THEN replace_all(b.data, "rename_header_")
    ELSE replace_all(b.data, "delete_header_")

\* C22: rename_header and delete_header called with the mandatory header in
\* any letter case return False without a single gspread call and leave every
\* row of the worksheet as it was, and no button that the rename and delete
\* menus add to a chat stands for that header.
C22_MandatoryHeaderKept ==
  [][/\ (/\ call'.handler \in {"rename_header", "delete_header"}
         /\ lower(call'.name) = MANDATORY_HEADER)
        => (~call'.ok /\ call'.calls = <<>> /\ sheet' = sheet)
     /\ \A u \in Users : \A b \in keyboards'[u] \ keyboards[u] :
          /\ lower(ButtonHeader(b)) # MANDATORY_HEADER
          /\ lower(b.shown) # MANDATORY_HEADER]_vars

\* The mandatory header is in the sheet, a menu has been shown, and
\* rename_header has been called with the mandatory header
C22_Witness ==
  /\ call.handler = "rename_header"
  /\ call.name = MANDATORY_HEADER
  /\ find_in_header(sheet, MANDATORY_HEADER) # 0
  /\ \E u \in Users : keyboards[u] # {}

\* C23: when ensure_mandatory_header_is_first has run without an exception,
\* the header row starts with the mandatory header, holds it exactly once,
\* and holds the other headers it had before in their order.
C23_MandatoryFirstOnce ==
  [][(call'.handler = "ensure_mandatory_header_is_first" /\ ~call'.error)
       => /\ row_values(sheet', 1) # <<>>
          /\ lower(row_values(sheet', 1)[1]) = MANDATORY_HEADER
          /\ Cardinality({i \in 1..Len(row_values(sheet', 1)) :
                            ~is_other_header(row_values(sheet', 1)[i])}) = 1
          /\ SelectSeq(row_values(sheet', 1), is_other_header) =
               SelectSeq(row_values(sheet, 1), is_other_header)]_vars


\* The calls of the service method op a handler run made
invoked(run, op) ==
  IF run.handler = "none" THEN {}
  ELSE {run.ops[i] : i \in {j \in 1..Len(run.ops) : run.ops[j].op = op}}

\* The user's state, as get_user_state returns it, in the store d
user_state(d, file, u) == get_user_state(d, file, u).state

\* C21: on every handler path that parses a text (a new entry in input mode,
\* a row edit in awaiting_updated_row_text mode) an empty header list is
\* rejected first: neither add_row nor update_row is invoked with a row built
\* from empty headers.
C21_EmptyHeadersRejected ==
  [][\A c \in invoked(call', "add_row") \cup invoked(call', "update_row") :
       c.headers # <<>>]_vars

\* C25: after a text is handled in awaiting_header_add,
\* awaiting_header_rename_new_name or awaiting_updated_row_text mode the
\* user's mode is idle and the payload of the flow (header_to_rename,
\* row_to_edit) is cleared, whether the sheet operation succeeded, failed or
\* the parser raised.
C25_FlowEndsAfterOneText ==
  [][\A u \in BotUsers :
       (/\ call'.handler \in {"_handle_header_add_receive",
                              "_handle_header_rename_receive",
                              "_handle_row_update_receive"}
        /\ call'.user = u)
       => /\ user_state(states', state_file', u)["mode"] = StrVal(IDLE_MODE)
          /\ call'.handler = "_handle_header_rename_receive" =>
               dict_get(user_state(states', state_file', u),
                        "header_to_rename") = NoneVal
          /\ call'.handler = "_handle_row_update_receive" =>
               dict_get(user_state(states', state_file', u),
                        "row_to_edit") = NoneVal]_vars

\* A row edit that failed at the sheet has ended the flow
C25_Witness ==
  /\ call.handler = "_handle_row_update_receive"
  /\ \E c \in invoked(call, "update_row") : ~c.ok
  /\ mode_of(call.user) = IDLE_MODE


\* C26: after cancel_action is handled, in any mode, the user's mode is idle
\* and no payload of the cancelled flow (header_to_rename, row_to_edit) is
\* left in the user's state.
C26_CancelResetsState ==
  [][\A u \in BotUsers :
       (call'.handler = "_handle_cancel_action" /\ call'.user = u)
       => /\ user_state(states', state_file', u)["mode"] = StrVal(IDLE_MODE)
          /\ ~Truthy(dict_get(user_state(states', state_file', u),
                              "header_to_rename"))
          /\ ~Truthy(dict_get(user_state(states', state_file', u),
                              "row_to_edit"))]_vars

\* The number N of a button prefix_N
button_row(b, prefix) == int(replace_all(b.data, prefix))

\* C27: delete_row(N) is invoked only while a confirm_delete_N callback is
\* handled; a confirm_delete_N button is offered only by the prompt that
\* answers the press of a delete_row_N button with the same N, and a
\* delete_row_N button only by the list of the recent rows, for a data row N
\* of the sheet.
C27_DeleteOnlyAfterConfirmation ==
  [][/\ \A c \in invoked(call', "delete_row") :
          /\ call'.handler = "_handle_row_delete_confirmed"
          /\ call'.data = "confirm_delete_" \o NatToDigits(c.row_number)
          /\ \E b \in keyboards[call'.user] : b.data = call'.data
     /\ \A u \in BotUsers : \A b \in keyboards'[u] \ keyboards[u] :
          /\ startswith(b.data, "confirm_delete_") =>
               /\ call'.handler = "_handle_row_delete_confirmation"
               /\ call'.user = u
               /\ call'.data =
                    "delete_row_" \o
                      NatToDigits(button_row(b, "confirm_delete_"))
               /\ \E s \in keyboards[u] : s.data = call'.data
          /\ startswith(b.data, "delete_row_") =>
               /\ call'.handler = "_show_rows_for_deleting"
               /\ call'.user = u
               /\ button_row(b, "delete_row_") \in 2..Len(sheet)]_vars

\* A row was deleted on the user's confirmation
C27_Witness ==
  /\ call.handler = "_handle_row_delete_confirmed"
  /\ \E c \in invoked(call, "delete_row") : c.ok /\ c.row_number = 2
  /\ Len(sheet) = 1


\* C28: a text writes to the sheet only in the matching mode: add_row only
\* in input mode, update_row only in awaiting_updated_row_text mode with a
\* row_to_edit set, add_header only in awaiting_header_add mode,
\* rename_header only in awaiting_header_rename_new_name mode with a
\* header_to_rename set; a text in idle mode changes neither the sheet nor
\* the user's state, and a text in input mode leaves the mode at input.
C28_TextWritesInMatchingMode ==
  [][\A u \in BotUsers :
       (call'.handler # "none" /\ call'.user = u) =>
         \E before \in {user_state(states, state_file, u)} :
         \E after \in {user_state(states', state_file', u)} :
           /\ invoked(call', "add_row") # {} =>
                /\ call'.kind = "text"
                /\ before["mode"] = StrVal(INPUT_MODE)
           /\ invoked(call', "update_row") # {} =>
                /\ call'.kind = "text"
                /\ before["mode"] = StrVal(AWAITING_UPDATED_ROW_TEXT)
                /\ Truthy(dict_get(before, "row_to_edit"))
           /\ invoked(call', "add_header") # {} =>
                /\ call'.kind = "text"
                /\ before["mode"] = StrVal(AWAITING_HEADER_ADD)
           /\ invoked(call', "rename_header") # {} =>
                /\ call'.kind = "text"
                /\ before["mode"] = StrVal(AWAITING_HEADER_RENAME_NEW_NAME)
                /\ Truthy(dict_get(before, "header_to_rename"))
           /\ (call'.kind = "text" /\ before["mode"] = StrVal(IDLE_MODE)) =>
                /\ sheet' = sheet
                /\ after = before
           /\ (call'.kind = "text" /\ before["mode"] = StrVal(INPUT_MODE)) =>
                after["mode"] = StrVal(INPUT_MODE)]_vars

\* A text in input mode was written to the sheet and the mode is still input
C28_Witness ==
  /\ call.handler = "_handle_input_data"
  /\ \E c \in invoked(call, "add_row") : c.ok
  /\ mode_of(call.user) = INPUT_MODE
  /\ Len(sheet) = 3

\* C29: when a text is handled in awaiting_updated_row_text mode, update_row
\* is invoked at most once and with the row number of the user's most recent
\* edit_row_N selection, also when other flows were started and cancelled in
\* between.
C29_EditTargetsSelectedRow ==
  [][call'.handler = "_handle_row_update_receive" =>
       /\ Len(call'.ops) <= 1
       /\ \A i \in 1..Len(call'.ops) :
            /\ call'.ops[i].op = "update_row"
            /\ call'.ops[i].row_number =
                 row_ids.picked[call'.user].row_number]_vars

\* The second data row was selected after the first and was written
C29_Witness ==
  /\ call.handler = "_handle_row_update_receive"
  /\ \E c \in invoked(call, "update_row") : c.ok /\ c.row_number = 3
  /\ row_ids.picked[call.user].row_number = 3

\* C30: the row update_row or delete_row modifies holds the entry that was
\* shown to the user when they selected it, also when rows were appended or
\* deleted between the selection and the write.
C30_WriteHitsShownRow ==
  [][/\ \A c \in invoked(call', "update_row") :
          c.ok => /\ c.row_number <= Len(row_ids.ids)
                  /\ row_ids.ids[c.row_number] =
                       row_ids.picked[call'.user].id
     /\ \A c \in invoked(call', "delete_row") :
          c.ok => \A b \in keyboards[call'.user] :
                    b.data = call'.data =>
                      /\ c.row_number <= Len(row_ids.ids)
                      /\ row_ids.ids[c.row_number] = int(b.shown)]_vars


C32_MandatoryHeaderStaysFirst ==
  /\ row_values(sheet, 1) # <<>>
  /\ lower(row_values(sheet, 1)[1]) = MANDATORY_HEADER


\* The header name over column c, "" where the header row has no cell
header_over(ws, c) ==
  IF c <= Len(row_values(ws, 1)) THEN row_values(ws, 1)[c] ELSE ""

\* C33: when ensure_mandatory_header_is_first rewrites the header row,
\* every existing data cell stays under the header name it had before the
\* rewrite.
C33_DataStaysUnderItsHeader ==
  [][(/\ call'.handler = "ensure_mandatory_header_is_first"
      /\ ~call'.error
      /\ sheet' # sheet)
     => \A n \in 2..Len(sheet) : \A c \in 1..Len(sheet[n]) :
          sheet[n][c] # ""
          => /\ n <= Len(sheet')
             /\ c <= Len(sheet'[n])
             /\ sheet'[n][c] = sheet[n][c]
             /\ header_over(sheet', c) = header_over(sheet, c)]_vars


\* The names of a header row
header_names(ws) == {row_values(ws, 1)[c] : c \in 1..Len(row_values(ws, 1))}

\* C34: add_header writes the new name into the first column after the last
\* existing header and overwrites no existing header; when two add_header
\* calls on the same sheet interleave and both return True, both new names
\* are in the header row afterwards.
C34_AddHeaderKeepsHeaders ==
  /\ [][\A t \in Tasks :
          (/\ call.tasks[t].pc = "write"
           /\ call'.tasks[t].pc = "done"
           /\ call'.tasks[t].ok)
          => /\ \A c \in 1..Len(row_values(sheet, 1)) :
                  row_values(sheet', 1)[c] = row_values(sheet, 1)[c]
             /\ Len(row_values(sheet', 1)) = Len(row_values(sheet, 1)) + 1
             /\ row_values(sheet', 1)[Len(row_values(sheet, 1)) + 1]
                  = call.tasks[t].name]_vars
  /\ []((\A t \in Tasks : call.tasks[t].pc = "done" /\ call.tasks[t].ok)
        => \A t \in Tasks : call.tasks[t].name \in header_names(sheet))


\* The positions of the projected row that carry the value of entity e
value_positions(e) ==
  {i \in 1..Len(headers) :
     /\ e \in DOMAIN active_entities
     /\ e \in DOMAIN results
     /\ headers[i] = active_entities[e]
     /\ Truthy(results[e])
     /\ row_data[i] = str(results[e])}

\* C35: in the projected row every entity key has at most one position that
\* carries its value, and no header position receives the value of more
\* than one entity, also when the header list names a column twice or in
\* two spellings.
C35_EntityHeaderOneToOne ==
  pc = "done"
  => /\ \A e \in DOMAIN active_entities :
          Cardinality(value_positions(e)) <= 1
     /\ \A i \in 1..Len(headers) :
          Cardinality({e \in DOMAIN active_entities :
                         i \in value_positions(e)}) <= 1


\* The keys a record of parse_transaction can hold
RecordKeys ==
  {"timestamp", "item_name", "quantity", "unit_price", "total_price",
   "transaction_type"}

\* C36: every record parse_transaction returns holds timestamp and
\* item_name, holds no key outside timestamp, item_name, quantity,
\* unit_price, total_price and transaction_type (never profit), and holds a
\* quantity, price or type key only if the stage for it matched or the
\* back-fill produced it.
C36_RecordKeys ==
  pc \in {"parsed", "done"}
  => /\ {"timestamp", "item_name"} \subseteq DOMAIN results
     /\ DOMAIN results \subseteq RecordKeys
     /\ "quantity" \in DOMAIN results => quantity_match # None
     /\ "unit_price" \in DOMAIN results
        => /\ price_match # None
           /\ \/ "unit_price" \in DOMAIN price_data
              \/ /\ quantity_match # None
                 /\ "total_price" \in DOMAIN price_data
                 /\ "unit_price" \in DOMAIN active_entities
     /\ "total_price" \in DOMAIN results
        => /\ price_match # None
           /\ \/ "total_price" \in DOMAIN price_data
              \/ /\ quantity_match # None
                 /\ "unit_price" \in DOMAIN price_data
                 /\ "total_price" \in DOMAIN active_entities
     /\ "transaction_type" \in DOMAIN results
        => infer_transaction_type(clean_text) # NoneVal

\* A returned record with all six keys whose total price was back-filled
C36_Witness ==
  /\ pc = "parsed"
  /\ DOMAIN results = RecordKeys
  /\ "total_price" \notin DOMAIN price_data

============================================================================
